---- MODULE Spec2Model ----
(***************************************************************************)
(* A model of aegis-stack:                                                 *)
(*   - the `aegis init` command line (src/aegis/__main__.py) with the      *)
(*     dependency resolver and the template generator it drives;           *)
(*   - the health aggregation of the generated application                 *)
(*     (app/services/system/health.py): the probe registry, the poll       *)
(*     cycle with its suspension points, and the system-metric cache.      *)
(*   - a TemplateGenerator object (src/aegis/core/template_generator.py)   *)
(*     in the hands of a caller.                                           *)
(* The parts share no state; each has its own specifications.              *)
(***************************************************************************)
EXTENDS Integers, Sequences, FiniteSets, TLC

VARIABLES
    \* ---- aegis init ----
    cli_pc,           \* "parse" | "body" | "exited"
    argv,             \* the command line of this run
    selected,         \* validate_and_resolve_components: the parsed names
    errors,           \* validate_and_resolve_components: the errors echoed
    resolved,         \* validate_and_resolve_components: resolve_dependencies' result
    auto_added,       \* the auto-added dependencies echoed (callback or init)
    recommendations,  \* the recommendations echoed by the callback
    components,       \* what the option callback hands to init (None or Some(set))
    calls,            \* the collaborators invoked so far, in order
    cookiecutter_args,\* the arguments of the cookiecutter call (None before it)
    exit_code,        \* -1 while running, else the process exit code
    \* ---- a TemplateGenerator object in the hands of a caller ----
    template_gen,     \* the object: project_name, project_slug, components, component_specs
    last_call,        \* None, or the last operation on it: its name, its result, the one before
    \* ---- health aggregation ----
    health_checks,    \* _health_checks: name -> probe
    last_registered,  \* the arguments of the last register_health_check call (None before)
    health_order,     \* the keys of _health_checks in dict (insertion) order
    metrics_cache,    \* _system_metrics_cache: metric -> [status, time]
    now,              \* datetime.now(UTC), in seconds
    os_sample,        \* what psutil would report now, per metric (1/100 percent)
    pc,               \* per poll: "idle" | "probes" | "metrics" | "done" (snapshot built)
                      \* | "raised" (the call has ended with an exception)
    start_time,       \* per poll: get_system_status' start_time
    component_tasks,  \* per poll: name -> task of _run_health_check
    metric_tasks,     \* per poll: metric -> task of _run_health_check_with_cache
    system_metrics,   \* per poll: _get_cached_system_metrics' system_metrics dict
    snapshot,         \* per poll: the SystemStatus returned (None before)
    \* ---- the generated application's lifespan ----
    STARTUP_TASKS,    \* app.core.lifecycle.STARTUP_TASKS
    SHUTDOWN_TASKS,   \* app.core.lifecycle.SHUTDOWN_TASKS
    life_pc,          \* "import" | "startup" | "serving" | "shutdown" | "stopped"
    life_i,           \* the position of the running for loop over the tasks
    life_awaiting,    \* whether lifespan is suspended in `await task()`
    life_log,         \* what has happened so far, in order
    \* ---- the worker health probe ----
    worker_queues,    \* the keys of settings.WORKER_QUEUES
    redis_obs,        \* per configured queue: what Redis holds about it now
    worker_pc,        \* "idle" | "llen" | "get" | "close" | "raised": the await the call is at
    worker_answers,   \* the call in flight: per queue checked so far, what its calls gave
    worker_queue_length, \* the call in flight: queue_length between llen and get (else 0)
    worker_status     \* the status the last call returned (None before, and while one runs)

cli_vars == <<cli_pc, argv, selected, errors, resolved, auto_added,
              recommendations, components, calls, cookiecutter_args, exit_code>>
health_vars == <<health_checks, last_registered, health_order, metrics_cache, now, os_sample, pc, start_time,
                 component_tasks, metric_tasks, system_metrics, snapshot>>
gen_vars == <<template_gen, last_call>>
life_vars == <<STARTUP_TASKS, SHUTDOWN_TASKS, life_pc, life_i, life_awaiting, life_log>>
worker_vars == <<worker_queues, redis_obs, worker_pc, worker_answers,
                 worker_queue_length, worker_status>>
vars == <<cli_vars, health_vars, gen_vars, life_vars, worker_vars>>

\* An optional value: Python's None is the empty tuple, a value x is <<x>>.
None == <<>>
Some(x) == <<x>>

\* The empty dict.
EmptyMap == [x \in {} |-> None]

(***************************************************************************)
(* Bounds of the model.                                                    *)
(***************************************************************************)
\* The longest --components value, in comma-separated tokens.
MaxLen == 3
\* The clock stops advancing here.
MaxTime == 8

(***************************************************************************)
(* Sequence helpers (Python list semantics).                               *)
(***************************************************************************)
Range(s) == {s[i] : i \in 1..Len(s)}

\* list(dict.fromkeys(s)): first occurrences, in order.
RECURSIVE DedupFirstSeen(_)
DedupFirstSeen(s) ==
    IF s = <<>> THEN <<>>
    ELSE LET front == DedupFirstSeen(SubSeq(s, 1, Len(s) - 1))
             last == s[Len(s)]
         IN IF last \in Range(front) THEN front ELSE Append(front, last)

\* Every ordering of a finite set as a list: list(a_set) has an unspecified order.
Orderings(S) ==
    {s \in [1..Cardinality(S) -> S] : \A i, j \in 1..Cardinality(S) : s[i] = s[j] => i = j}

(***************************************************************************)
(* The component registry (aegis/core/components.py).                      *)
(***************************************************************************)
CORE_COMPONENTS == {"backend", "frontend"}

COMPONENTS ==
    [n \in {"backend", "frontend", "redis", "worker", "scheduler"} |->
        CASE n = "backend" ->
                [type |-> "CORE", requires |-> {}, recommends |-> {},
                 docker_services |-> <<>>, pyproject_deps |-> <<>>,
                 template_files |-> <<>>]
          [] n = "frontend" ->
                [type |-> "CORE", requires |-> {}, recommends |-> {},
                 docker_services |-> <<>>, pyproject_deps |-> <<>>,
                 template_files |-> <<>>]
          [] n = "redis" ->
                [type |-> "INFRASTRUCTURE", requires |-> {}, recommends |-> {},
                 docker_services |-> <<"redis">>,
                 pyproject_deps |-> <<"redis">>,
                 template_files |-> <<>>]
          [] n = "worker" ->
                [type |-> "INFRASTRUCTURE", requires |-> {"redis"},
                 recommends |-> {},
                 docker_services |-> <<"worker", "redis">>,
                 pyproject_deps |-> <<"arq", "redis">>,
                 template_files |-> <<"app/components/worker">>]
          [] n = "scheduler" ->
                [type |-> "INFRASTRUCTURE", requires |-> {},
                 recommends |-> {"redis"},
                 docker_services |-> <<"scheduler">>,
                 pyproject_deps |-> <<"apscheduler">>,
                 template_files |-> <<"app/components/scheduler",
                                      "app/entrypoints/scheduler.py">>]]

Registry == DOMAIN COMPONENTS

(***************************************************************************)
(* DependencyResolver (aegis/core/dependency_resolver.py).                 *)
(***************************************************************************)
\* validate_components giving up at the first unknown name.
validate_components_FirstOnly(names) ==
    LET unknown == SelectSeq(names, LAMBDA n : n \notin Registry)
    IN [i \in 1..(IF unknown = <<>> THEN 0 ELSE 1) |->
           [error |-> "Unknown component", name |-> unknown[i]]]

\* validate_components: one error per listed name that the registry lacks.
validate_components(names) ==
    LET unknown == SelectSeq(names, LAMBDA n : n \notin Registry)
    IN [i \in 1..Len(unknown) |-> [error |-> "Unknown component", name |-> unknown[i]]]

\* The call DependencyResolver.validate_components(names) with its effects:
\* what it returns, the exception it ends with (none: an unknown name is
\* reported in the list that is returned) and the registry after it (the
\* validation reads COMPONENTS and writes nothing).
ValidateCall(names) ==
    [returned |-> validate_components(names), raised |-> None, registry |-> COMPONENTS]

RequiresOf(S) == UNION {COMPONENTS[c].requires : c \in S \cap Registry}

\* resolve_dependencies that leaves out a requested component whose
\* requirements were all requested with it.
RECURSIVE resolve_dependencies_DropsSatisfied(_)
resolve_dependencies_DropsSatisfied(S) ==
    LET T == S \cup RequiresOf(S)
    IN IF T = S
       THEN S \ {c \in S \cap Registry :
                    COMPONENTS[c].requires # {} /\ COMPONENTS[c].requires \subseteq S}
       ELSE resolve_dependencies_DropsSatisfied(T)

\* resolve_dependencies: union in the requires of every member until the set
\* stops growing.
RECURSIVE resolve_dependencies(_)
resolve_dependencies(S) ==
    LET T == S \cup RequiresOf(S)
    IN IF T = S THEN S ELSE resolve_dependencies(T)

\* One scan over the list: after each member, append the requirements of it
\* that the list lacks.
RECURSIVE ScanPass(_, _)
ScanPass(list, i) ==
    IF i > Len(list) THEN list
    ELSE LET need == IF list[i] \in Registry
                     THEN COMPONENTS[list[i]].requires \ Range(list)
                     ELSE {}
         IN ScanPass(list \o (CHOOSE s \in Orderings(need) : TRUE), i + 1)

\* resolve_dependencies on the list it is given, adding the requirements of
\* the first name only.
ResolveScan_FirstOnly(names) ==
    LET start == DedupFirstSeen(names)
        need == IF start # <<>> /\ start[1] \in Registry
                THEN COMPONENTS[start[1]].requires \ Range(start)
                ELSE {}
    IN start \o (CHOOSE s \in Orderings(need) : TRUE)

\* resolve_dependencies on the list it is given: start with the requested
\* names and scan, adding missing requirements, until a full scan adds none.
RECURSIVE ResolveScan(_)
ResolveScan(names) ==
    LET start == DedupFirstSeen(names)
        after == ScanPass(start, 1)
    IN IF after = start THEN start ELSE ResolveScan(after)

\* get_missing_dependencies: the resolved set minus the requested names.
get_missing_dependencies(names) ==
    resolve_dependencies(Range(names)) \ Range(names)

\* get_recommendations: the members' recommends, minus the members.
get_recommendations(R) ==
    UNION {COMPONENTS[c].recommends : c \in R \cap Registry} \ R

(***************************************************************************)
(* TemplateGenerator (aegis/core/template_generator.py).                   *)
(***************************************************************************)
ProjectNames == {"My App"}

\* project_name.lower().replace(" ", "-").replace("_", "-")
project_slug(project_name) ==
    CASE project_name = "My App" -> "my-app"
      [] OTHER -> project_name

\* self.component_specs: the registry restricted to the selected names.
component_specs(comps) ==
    [n \in Range(comps) \cap Registry |-> COMPONENTS[n]]

\* TemplateGenerator.__init__: the generator object.  self.components is the
\* caller's list itself; self.component_specs is computed here, once.
TemplateGenerator(project_name, selected_components) ==
    [project_name |-> project_name,
     project_slug |-> project_slug(project_name),
     components |-> selected_components,
     component_specs |-> component_specs(selected_components)]

\* The loop shared by the three accessors: extend a list with one field of
\* every member of self.components that has a spec, in list order.
RECURSIVE Collect(_, _, _)
Collect(comps, specs, field) ==
    IF comps = <<>> THEN <<>>
    ELSE LET front == Collect(SubSeq(comps, 1, Len(comps) - 1), specs, field)
             c == comps[Len(comps)]
         IN IF c \in DOMAIN specs
            THEN front \o specs[c][field]
            ELSE front

\* Python's order on the strings that occur as package dependencies.
StrRank(s) ==
    CASE s = "apscheduler" -> 1
      [] s = "arq" -> 2
      [] s = "redis" -> 3
      [] OTHER -> 4

\* sorted(a_set)
Sorted(S) ==
    CHOOSE s \in Orderings(S) :
        \A i, j \in 1..Cardinality(S) : i < j => StrRank(s[i]) < StrRank(s[j])

\* _get_docker_services returning the collected list as it is.
_get_docker_services_NoDedup(self) ==
    Collect(self.components, self.component_specs, "docker_services")

_get_docker_services(self) ==
    DedupFirstSeen(Collect(self.components, self.component_specs, "docker_services"))

\* _get_pyproject_deps deduplicating in first-seen order, without sorting.
_get_pyproject_deps_Unsorted(self) ==
    DedupFirstSeen(Collect(self.components, self.component_specs, "pyproject_deps"))

_get_pyproject_deps(self) ==
    Sorted(Range(Collect(self.components, self.component_specs, "pyproject_deps")))

\* get_template_files returning the collected list as it is.
get_template_files_NoDedup(self) ==
    Collect(self.components, self.component_specs, "template_files")

get_template_files(self) ==
    DedupFirstSeen(Collect(self.components, self.component_specs, "template_files"))

\* The flag of cookiecutter's conditionals, always set.
YesNo_AlwaysYes(b) == "yes"
YesNo(b) == IF b THEN "yes" ELSE "no"

\* get_template_context with the derived flags taken from the specs that
\* __init__ stored instead of the list held now.
get_template_context_StoredFlags(self) ==
    [project_name |-> self.project_name,
     project_slug |-> self.project_slug,
     include_redis |-> YesNo("redis" \in Range(self.components)),
     include_worker |-> YesNo("worker" \in Range(self.components)),
     include_scheduler |-> YesNo("scheduler" \in Range(self.components)),
     has_background_infrastructure |->
         \E name \in {"worker", "scheduler"} : name \in DOMAIN self.component_specs,
     needs_redis |-> "redis" \in DOMAIN self.component_specs,
     selected_components |-> self.components,
     docker_services |-> _get_docker_services(self),
     pyproject_dependencies |-> _get_pyproject_deps(self)]

get_template_context(self) ==
    [project_name |-> self.project_name,
     project_slug |-> self.project_slug,
     include_redis |-> YesNo("redis" \in Range(self.components)),
     include_worker |-> YesNo("worker" \in Range(self.components)),
     include_scheduler |-> YesNo("scheduler" \in Range(self.components)),
     has_background_infrastructure |->
         \E name \in {"worker", "scheduler"} : name \in Range(self.components),
     needs_redis |-> "redis" \in Range(self.components),
     selected_components |-> self.components,
     docker_services |-> _get_docker_services(self),
     pyproject_dependencies |-> _get_pyproject_deps(self)]

\* The names a caller may put in the list it hands to TemplateGenerator.
GenNames == {"redis", "worker", "scheduler", "bogus"}

\* The lists a generator is built with: any names, repeated or unknown ones too.
ComponentLists == UNION {[1..n -> GenNames] : n \in 0..MaxLen}

\* The accessors of a generator.
Accessors ==
    {"_get_docker_services", "_get_pyproject_deps", "get_template_files",
     "get_template_context"}

\* The name of the operation before this one.
PrevOp == IF last_call = None THEN "__init__" ELSE last_call[1].op

\* A call of one accessor.  None of them assigns to self.
CallAccessor(op) ==
    /\ op \in Accessors
    /\ last_call' = Some(
           [op |-> op,
            prev_op |-> PrevOp,
            result |->
               CASE op = "_get_docker_services" -> _get_docker_services(template_gen)
                 [] op = "_get_pyproject_deps" -> _get_pyproject_deps(template_gen)
                 [] op = "get_template_files" -> get_template_files(template_gen)
                 [] op = "get_template_context" -> get_template_context(template_gen)])
    /\ UNCHANGED template_gen
    /\ UNCHANGED <<cli_vars, health_vars, life_vars, worker_vars>>

\* The caller appends a name to the list it built the generator with:
\* self.components is that list, self.component_specs is not recomputed.
ComponentsAppend(name) ==
    /\ Len(template_gen.components) < MaxLen
    /\ template_gen' = [template_gen EXCEPT !.components = Append(@, name)]
    /\ last_call' = Some([op |-> "append", prev_op |-> PrevOp, result |-> None])
    /\ UNCHANGED <<cli_vars, health_vars, life_vars, worker_vars>>

\* The caller removes the last name of the list.
ComponentsPop ==
    /\ template_gen.components # <<>>
    /\ template_gen' = [template_gen EXCEPT
                           !.components = SubSeq(@, 1, Len(@) - 1)]
    /\ last_call' = Some([op |-> "pop", prev_op |-> PrevOp, result |-> None])
    /\ UNCHANGED <<cli_vars, health_vars, life_vars, worker_vars>>

(***************************************************************************)
(* aegis init (aegis/__main__.py).                                         *)
(***************************************************************************)
\* The comma-separated tokens a --components value is made of.
RawTokens == {"redis", "worker", " scheduler", "bogus", "invalid", ""}

\* str.strip()
strip(tok) ==
    CASE tok = " scheduler" -> "scheduler"
      [] OTHER -> tok

\* A --components value, as value.split(",") sees it; <<"">> is the empty string.
\* An absent option is None.
ComponentValues ==
    UNION {[1..n -> RawTokens] : n \in 1..MaxLen}

\* selected = [c.strip() for c in value.split(",") if c.strip()]
ParseComponents(value) ==
    LET stripped == [i \in 1..Len(value) |-> strip(value[i])]
    IN SelectSeq(stripped, LAMBDA c : c # "")

Argvs ==
    [project_name : ProjectNames,
     value : {None} \cup ComponentValues,
     interactive : BOOLEAN,
     force : BOOLEAN,
     yes : BOOLEAN,
     dir_exists : BOOLEAN]

\* if errors: ... raise typer.Exit(1)
AbortOnErrors_OnlySeveral(errs) == Len(errs) > 1
AbortOnErrors(errs) == errs # <<>>

\* resolved = DependencyResolver.resolve_dependencies(selected); return resolved
ResolvedFor_Unresolved(sel) == Range(sel)
ResolvedFor(sel) == Range(ResolveScan(sel))

\* auto_added = DependencyResolver.get_missing_dependencies(selected)
AutoAddedFor_OfResolved(sel) ==
    get_missing_dependencies(CHOOSE s \in Orderings(ResolvedFor(sel)) : TRUE)
AutoAddedFor(sel) == get_missing_dependencies(sel)

\* return resolved
CallbackReturn_WithRecommended(res, recs) == res \cup recs
CallbackReturn(res, recs) == res

\* The option callback of --components. Typer runs it while parsing the command
\* line, before the body of init; typer.Exit(1) ends the process there.
validate_and_resolve_components ==
    /\ cli_pc = "parse"
    /\ IF argv.value = None \/ argv.value = <<"">>
       THEN \* if not value: return None
            /\ components' = None
            /\ cli_pc' = "body"
            /\ UNCHANGED <<selected, errors, resolved, auto_added,
                           recommendations, calls, exit_code>>
       ELSE LET sel == ParseComponents(argv.value)
                errs == ValidateCall(sel).returned
            IN /\ selected' = sel
               /\ errors' = errs
               /\ IF AbortOnErrors(errs)
                  THEN /\ exit_code' = 1
                       /\ cli_pc' = "exited"
                       /\ calls' = calls \o <<"validate_components">>
                       /\ UNCHANGED <<resolved, auto_added, recommendations,
                                      components>>
                  ELSE LET res == ResolvedFor(sel)
                       IN /\ resolved' = res
                          /\ auto_added' = AutoAddedFor(sel)
                          /\ recommendations' = get_recommendations(res)
                          /\ components' = Some(CallbackReturn(res, get_recommendations(res)))
                          /\ calls' = calls \o <<"validate_components",
                                                 "resolve_dependencies",
                                                 "get_missing_dependencies",
                                                 "get_recommendations">>
                          /\ cli_pc' = "body"
                          /\ UNCHANGED exit_code
    /\ UNCHANGED <<argv, cookiecutter_args>>
    /\ UNCHANGED <<health_vars, gen_vars, life_vars, worker_vars>>

\* The selection with the worker prompt of the no-Redis branch adding the
\* worker alone.
interactive_component_selection_WorkerAlone(add_redis, add_worker, add_scheduler) ==
    LET s1 == IF add_redis THEN <<"redis">> ELSE <<>>
        s2 == IF add_worker THEN Append(s1, "worker") ELSE s1
    IN IF add_scheduler THEN Append(s2, "scheduler") ELSE s2

\* interactive_component_selection, given the user's answers to its prompts.
interactive_component_selection(add_redis, add_worker, add_scheduler) ==
    LET s1 == IF add_redis THEN <<"redis">> ELSE <<>>
        s2 == IF "redis" \in Range(s1)
              THEN (IF add_worker THEN Append(s1, "worker") ELSE s1)
              ELSE (IF add_worker THEN s1 \o <<"redis", "worker">> ELSE s1)
    IN IF add_scheduler THEN Append(s2, "scheduler") ELSE s2

\* if project_path.exists(): if not force: ... raise typer.Exit(1)
DirectoryConflict_Never(dir_exists, force) == FALSE
DirectoryConflict(dir_exists, force) == dir_exists /\ ~force

\* What the rendering collaborator does when asked.
CookiecutterOutcomes == {"ok", "ImportError", "raises"}

\* The body of init, with the user's answers and the collaborator's outcome.
init ==
    /\ cli_pc = "body"
    /\ cli_pc' = "exited"
    /\ \E add_redis, add_worker, add_scheduler, confirm \in BOOLEAN,
          outcome \in CookiecutterOutcomes :
        IF DirectoryConflict(argv.dir_exists, argv.force)
        THEN /\ exit_code' = 1
             /\ UNCHANGED <<selected, resolved, auto_added, calls,
                            cookiecutter_args>>
        ELSE LET given == components # None /\ components[1] # {}
                 ask == argv.interactive /\ ~given
                 picked == interactive_component_selection(
                               add_redis, add_worker, add_scheduler)
                 chosen == IF ask
                           THEN (IF picked # <<>>
                                 THEN resolve_dependencies(Range(picked))
                                 ELSE {})
                           ELSE (IF given THEN components[1] ELSE {})
             IN /\ IF ask
                   THEN /\ selected' = picked
                        /\ IF picked # <<>>
                           THEN /\ resolved' = chosen
                                /\ auto_added' = get_missing_dependencies(
                                       CHOOSE s \in Orderings(chosen \ CORE_COMPONENTS) : TRUE)
                           ELSE UNCHANGED <<resolved, auto_added>>
                   ELSE UNCHANGED <<selected, resolved, auto_added>>
                /\ \E comps \in Orderings(chosen) :
                     LET before == calls \o
                             (IF ask THEN <<"interactive_component_selection">> ELSE <<>>) \o
                             (IF ask /\ picked # <<>>
                              THEN <<"resolve_dependencies", "get_missing_dependencies">>
                              ELSE <<>>) \o
                             <<"get_template_files", "_get_pyproject_deps">> \o
                             \* not yes and not typer.confirm(...): asked unless --yes
                             (IF argv.yes THEN <<>>
                              ELSE IF confirm THEN <<"confirm:yes">>
                              ELSE <<"confirm:no">>)
                     IN IF ~argv.yes /\ ~confirm
                        THEN /\ exit_code' = 0
                             /\ calls' = before
                             /\ UNCHANGED cookiecutter_args
                        ELSE IF outcome = "ImportError"
                        THEN /\ exit_code' = 1
                             /\ calls' = before
                             /\ UNCHANGED cookiecutter_args
                        ELSE /\ calls' = before \o <<"get_template_context", "cookiecutter">>
                             /\ cookiecutter_args' = Some(
                                    [extra_context |->
                                         get_template_context(
                                             TemplateGenerator(argv.project_name, comps)),
                                     no_input |-> TRUE,
                                     overwrite_if_exists |-> argv.force])
                             /\ exit_code' = IF outcome = "ok" THEN 0 ELSE 1
    /\ UNCHANGED <<argv, errors, recommendations, components>>
    /\ UNCHANGED <<health_vars, gen_vars, life_vars, worker_vars>>

(***************************************************************************)
(* Health aggregation: settings (app/core/config.py) and the status model. *)
(***************************************************************************)
SYSTEM_METRICS_CACHE_SECONDS == 5
MEMORY_THRESHOLD_PERCENT == 90
DISK_THRESHOLD_PERCENT == 85
CPU_THRESHOLD_PERCENT == 95

\* The calls of get_system_status of which tasks may be in the event loop at
\* the same time.
Polls == {1, 2}

\* The names probes are registered under, and the probe functions.
HealthNames == {"backend", "custom_test"}
ProbeFns == {"check_a", "check_b"}

\* system_metric_checks, in dict order.
MetricNames == {"memory", "disk", "cpu"}

ComponentStatus(name, healthy, message, response_time_ms, metadata, sub_components) ==
    [name |-> name, healthy |-> healthy, message |-> message,
     response_time_ms |-> response_time_ms, metadata |-> metadata,
     sub_components |-> sub_components]

\* A status as a probe builds it, with at most one child.
Leaf(name, healthy, message) ==
    ComponentStatus(name, healthy, message, None, EmptyMap, EmptyMap)
WithChild(status, child) ==
    [status EXCEPT !.sub_components = (child.name :> child)]

\* An exception as an except clause meets it: its class, and what str(e)
\* gives, a text or the exception that __str__ raises.
Error(class, text) == [class |-> class, text |-> Some(text), str_raises |-> None]
Unprintable(class, inner) == [class |-> class, text |-> None, str_raises |-> Some(inner)]

\* isinstance(e, Exception): asyncio.CancelledError derives from BaseException.
IsException(e) == e.class # "CancelledError"

CancelledError == Error("CancelledError", "")
\* An exception whose __str__ raises RuntimeError("no text"), one whose
\* __str__ raises such an exception in turn, and so on.
NoText == Error("RuntimeError", "no text")
Unprintable1 == Unprintable("Exception", NoText)
Unprintable2 == Unprintable("Exception", Unprintable("RuntimeError", NoText))
Unprintable3 ==
    Unprintable("Exception",
                Unprintable("RuntimeError", Unprintable("RuntimeError", NoText)))

\* What an except clause that formats the exception it caught lets out: the
\* exception itself when the clause does not catch it, else what str(e)
\* raises; None when the clause runs to its end.
HandlerRaises(e) == IF IsException(e) THEN e.str_raises ELSE Some(e)

\* What awaiting a probe registered under `name` can produce: a status (a leaf,
\* or a chain down to a grandchild), a bare bool, or an exception: one with a
\* text, one whose text cannot be taken, or asyncio.CancelledError, which the
\* except clauses of lines 64 and 279 do not catch.
ProbeStatuses(name) ==
    {Leaf(name, TRUE, "ok"),
     Leaf(name, FALSE, "down"),
     WithChild(Leaf(name, TRUE, "ok"), Leaf("child", FALSE, "down")),
     WithChild(Leaf(name, TRUE, "ok"),
               WithChild(Leaf("child", TRUE, "ok"), Leaf("grandchild", FALSE, "down"))),
     WithChild(Leaf(name, TRUE, "ok"),
               WithChild(Leaf("child", TRUE, "ok"), Leaf("grandchild", TRUE, "ok")))}

ProbeErrors == {Error("Exception", "boom"), Unprintable1, Unprintable2, CancelledError}

ProbeOutcomes(name) ==
    {[kind |-> "status", status |-> st] : st \in ProbeStatuses(name)}
    \cup {[kind |-> "bool", value |-> b] : b \in BOOLEAN}
    \cup {[kind |-> "raise", error |-> e] : e \in ProbeErrors}

\* d[key] = value on a dict whose keys are `keys`, in order: a new key goes to
\* the end, a key already there keeps its place.
KeysAfterSet(keys, key) ==
    IF key \in Range(keys) THEN keys ELSE Append(keys, key)

\* An asyncio task around _run_health_check: created PENDING, RUNNING from its
\* first step (the clock is read) until check_fn completes.  A task that is
\* done holds a result or an exception; `reading` is what the worker thread of
\* a metric probe has read before the coroutine resumes.
NewTask(fn) ==
    [check_fn |-> fn, state |-> "PENDING", started |-> 0, reading |-> None,
     returned |-> None, result |-> None, exception |-> None]

AllCompleted(tasks) == \A k \in DOMAIN tasks : tasks[k].state = "COMPLETED"

\* (end_time - start_time).total_seconds() * 1000
ResponseTimeMs(start, end) == (end - start) * 1000

\* What leaves _run_health_check as an exception (None when it returns): one
\* that `except Exception` (line 279) does not catch, or the one str(e) raises
\* at line 283.
RunnerRaises(outcome) ==
    IF outcome.kind = "raise" THEN HandlerRaises(outcome.error) ELSE None

\* _run_health_check from the return (or raise) of check_fn on: the status it
\* returns, for an outcome it returns on (RunnerRaises(outcome) = None).
_run_health_check(name, outcome, started, ended) ==
    LET response_time == ResponseTimeMs(started, ended)
    IN CASE outcome.kind = "status" ->
                [outcome.status EXCEPT !.response_time_ms = Some(response_time)]
         [] outcome.kind = "bool" ->
                ComponentStatus(name, outcome.value,
                                IF outcome.value THEN "OK" ELSE "Failed",
                                Some(response_time), EmptyMap, EmptyMap)
         [] outcome.kind = "raise" ->
                ComponentStatus(name, FALSE, "Error: " \o outcome.error.text[1],
                                Some(response_time), EmptyMap, EmptyMap)

(***************************************************************************)
(* The system-metric probes: _check_memory, _check_disk_space,             *)
(* _check_cpu_usage.  A measurement v is in 1/100 percent of the whole.     *)
(***************************************************************************)
ThresholdPercent(metric) ==
    CASE metric = "memory" -> MEMORY_THRESHOLD_PERCENT
      [] metric = "disk" -> DISK_THRESHOLD_PERCENT
      [] metric = "cpu" -> CPU_THRESHOLD_PERCENT

\* The measurements the model samples: just under the threshold, and on it.
SampleValues(metric) ==
    {ThresholdPercent(metric) * 100 - 4, ThresholdPercent(metric) * 100}

\* ---- Python floats: x / y, x * 100 and f"{x:.1f}" ----
\* A float is a binary64: 53 bits of mantissa, every operation rounded to the
\* nearest, ties to even.  The operators below follow one value through the
\* roundings with integer arithmetic that stays small: of a mantissa they keep
\* the low bits, and of a rounding the sign of its error.
Sign(x) == IF x > 0 THEN 1 ELSE IF x < 0 THEN -1 ELSE 0

\* F(v), with v worked out once.
With(v, F(_)) == CHOOSE r \in {F(x) : x \in {v}} : TRUE

RECURSIVE Pow2(_)
Pow2(n) == IF n = 0 THEN 1 ELSE 2 * Pow2(n - 1)

RECURSIVE ShiftMod(_, _, _)
\* (x * 2^s) % m
ShiftMod(x, s, m) ==
    IF s = 0 THEN x % m
    ELSE IF s >= 7 THEN ShiftMod((128 * (x % m)) % m, s - 7, m)
    ELSE ShiftMod((2 * (x % m)) % m, s - 1, m)

RECURSIVE Log2Floor(_, _)
\* The k with 2^k <= f/t < 2^(k+1), for f > 0.
Log2Floor(f, t) ==
    IF f >= t
    THEN IF f >= 2 * t THEN 1 + Log2Floor(f, 2 * t) ELSE 0
    ELSE Log2Floor(2 * f, t) - 1

\* The float f / t of two positive integers: its mantissa is f * 2^s / t
\* rounded to an integer of 53 bits.  `low` is the mantissa modulo 256 and
\* `err` the sign-carrying numerator of the rounding error: the float minus
\* f/t is err / (t * 2^s).
FloatQuotient(f, t) ==
    With(52 - Log2Floor(f, t), LAMBDA s :
        With(ShiftMod(f, s, 256 * t), LAMBDA shifted :
            LET rho == shifted % t
                floor_low == shifted \div t
                up == IF 2 * rho > t \/ (2 * rho = t /\ floor_low % 2 = 1) THEN 1 ELSE 0
            IN [k |-> 52 - s, low |-> (floor_low + up) % 256, err |-> t * up - rho]))

\* The sign of ((f / t) * 100 as floats) minus (100 f / t as a real).  The
\* product of the mantissa by 100 has 59 or 60 bits, of which 6 or 7 are
\* rounded away.
FloatTimes100Sign(f, t) ==
    With(FloatQuotient(f, t), LAMBDA q :
        LET big == IF q.k <= 0 THEN 100 * f * Pow2(0 - q.k) >= 128 * t
                   ELSE 100 * f >= 128 * t * Pow2(q.k)
            d == IF big THEN 7 ELSE 6
            r == (100 * q.low) % Pow2(d)
            odd == (100 * q.low) % Pow2(d + 1) >= Pow2(d)
            half == Pow2(d - 1)
            up == r > half \/ (r = half /\ odd)
            e2 == IF up THEN Pow2(d) - r ELSE 0 - r
        IN Sign(100 * q.err + t * e2))

\* A float x that stands for n/d and is off it in the direction `sg`, rounded
\* to one decimal as f"{x:.1f}" rounds it, in tenths: the float's exact value
\* rounded, ties to even.  A float is never so far off n/d as to cross a tie;
\* on a tie of n/d the float's own side of it decides.
RoundTenths(n, d, sg) ==
    LET floor_tenths == (10 * n) \div d
        rem == (10 * n) % d
        up == \/ 2 * rem > d
              \/ 2 * rem = d /\ (sg > 0 \/ (sg = 0 /\ floor_tenths % 2 = 1))
    IN IF up THEN floor_tenths + 1 ELSE floor_tenths

\* f"{x:.1f}" of that float.
FormatFloat1(n, d, sg) ==
    LET tenths == RoundTenths(n, d, sg)
    IN ToString(tenths \div 10) \o "." \o ToString(tenths % 10)

\* A percentage as the code holds it, a float: it stands for num/den and is
\* off it in the direction `off`.
FloatPercent(num, den, off) == [num |-> num, den |-> den, off |-> off]

\* memory.percent and the return of psutil.cpu_percent: the float nearest to
\* v/100.
PsutilPercent(v) ==
    FloatPercent(v, 100, IF v = 0 THEN 0 ELSE Sign(FloatQuotient(v, 100).err))

\* disk_percent = (disk.used / disk.total) * 100, line 342: the quotient is
\* rounded to a float, and so is its product by 100.
DiskPercent(used, total) ==
    FloatPercent(100 * used, total,
                 IF used = 0 THEN 0 ELSE FloatTimes100Sign(used, total))

\* f"{percent:.1f}" of a percentage.
FormatPercent1(percent) == FormatFloat1(percent.num, percent.den, percent.off)

\* f"{failure_rate:.1f}" of failure_rate = (failed / total) * 100.
FormatRate1(failed, total) ==
    IF failed = 0 THEN "0.0"
    ELSE FormatFloat1(100 * failed, total, FloatTimes100Sign(failed, total))

MetricLabel(metric) ==
    CASE metric = "memory" -> "Memory usage: "
      [] metric = "disk" -> "Disk usage: "
      [] metric = "cpu" -> "CPU usage: "

MetricFailure(metric) ==
    CASE metric = "memory" -> "Failed to check memory: "
      [] metric = "disk" -> "Failed to check disk space: "
      [] metric = "cpu" -> "Failed to check CPU usage: "

\* The comparison made on the percentage rounded to one decimal, as the
\* message shows it.
MetricHealthy_Rounded(metric, percent) ==
    RoundTenths(percent.num, percent.den, percent.off) < ThresholdPercent(metric) * 10

\* healthy = percent < settings.<METRIC>_THRESHOLD_PERCENT, a comparison of two
\* floats.  The thresholds are whole numbers; a percentage whose num/den is
\* under the threshold is a float under it (the denominators here are far too
\* small for a rounding to reach the threshold), and one whose num/den is the
\* threshold is under it when the roundings left it under.
MetricHealthy(metric, percent) ==
    \/ percent.num < ThresholdPercent(metric) * percent.den
    \/ /\ percent.num = ThresholdPercent(metric) * percent.den
       /\ percent.off < 0

\* What the psutil call of a metric probe can raise.
PsutilErrors ==
    {Error("Exception", "psutil error"), Unprintable1, Unprintable2, Unprintable3,
     CancelledError}

\* What the worker thread hands back: psutil's answer, or psutil's exception.
\* A size is counted in units of 2^28 bytes, a quarter of a GiB.  For the
\* measurement v: virtual_memory() with percent the float nearest v/100, of
\* 16 GiB; disk_usage("/") with v units used of 10000; cpu_percent() the float
\* nearest v/100, and cpu_count() 4.
Reading(metric, v) ==
    CASE metric = "memory" ->
             [kind |-> "value", percent |-> v, total |-> 64,
              available |-> (64 * (10000 - v)) \div 10000]
      [] metric = "disk" ->
             [kind |-> "value", used |-> v, total |-> 10000, free |-> 10000 - v]
      [] metric = "cpu" ->
             [kind |-> "value", percent |-> v, cpu_count |-> 4]

ReadingFailed(e) == [kind |-> "raise", error |-> e]

\* round(x / (1024**3), 2) of a size x, in 1/100 GiB.  x is units * 2^28
\* bytes: the quotient is the float units/4 exactly, a number of at most two
\* decimals, and round returns it as it is.
RoundGb(units) == 25 * units

\* memory_percent, disk_percent, cpu_percent of the probes (lines 312, 342,
\* 374).
PercentUsed(metric, reading) ==
    IF metric = "disk" THEN DiskPercent(reading.used, reading.total)
    ELSE PsutilPercent(reading.percent)

\* The metadata of the three probes, lines 321-326, 352-357, 382-386.
MetricMetadata(metric, reading, percent) ==
    CASE metric = "memory" ->
             [percent_used |-> percent,
              total_gb |-> RoundGb(reading.total),
              available_gb |-> RoundGb(reading.available),
              threshold_percent |-> ThresholdPercent(metric)]
      [] metric = "disk" ->
             [percent_used |-> percent,
              total_gb |-> RoundGb(reading.total),
              free_gb |-> RoundGb(reading.free),
              threshold_percent |-> ThresholdPercent(metric)]
      [] metric = "cpu" ->
             [percent_used |-> percent,
              cpu_count |-> reading.cpu_count,
              threshold_percent |-> ThresholdPercent(metric)]

\* The status of a probe whose psutil calls answered (lines 312-327, 342-358,
\* 374-387): the percentage is worked out once and compared, shown and kept.
MetricStatus(metric, reading) ==
    With(PercentUsed(metric, reading), LAMBDA percent :
        ComponentStatus(metric, MetricHealthy(metric, percent),
                        MetricLabel(metric) \o FormatPercent1(percent) \o "%",
                        None,
                        MetricMetadata(metric, reading, percent),
                        EmptyMap))

\* _check_memory, _check_disk_space, _check_cpu_usage from the return of
\* asyncio.to_thread on, as the outcome _run_health_check meets: the status
\* for the measurement, the status of the except branch, or the exception
\* that branch lets out.
MetricCheck(metric, reading) ==
    IF reading.kind = "value"
    THEN [kind |-> "status", status |-> MetricStatus(metric, reading)]
    ELSE IF HandlerRaises(reading.error) # None
    THEN [kind |-> "raise", error |-> HandlerRaises(reading.error)[1]]
    ELSE [kind |-> "status",
          status |-> ComponentStatus(metric, FALSE,
                         MetricFailure(metric) \o reading.error.text[1],
                         None, EmptyMap, EmptyMap)]

(***************************************************************************)
(* get_system_status: building the snapshot from the collected results.    *)
(***************************************************************************)
\* The virtual backend's health: all(metric.healthy for metric in ...).
VirtualBackendHealthy_Any(metrics) == \E m \in DOMAIN metrics : metrics[m].healthy
VirtualBackendHealthy(metrics) == \A m \in DOMAIN metrics : metrics[m].healthy

\* The grouping with the health of a registered backend recomputed from the
\* metrics, as it is for the virtual one.
GroupUnderBackend_HealthFromMetrics(component_results, metrics) ==
    LET backend_healthy == VirtualBackendHealthy(metrics)
    IN [n \in DOMAIN component_results \cup {"backend"} |->
           IF n = "backend"
           THEN IF "backend" \in DOMAIN component_results
                THEN ComponentStatus(component_results[n].name, backend_healthy,
                                     component_results[n].message,
                                     component_results[n].response_time_ms,
                                     component_results[n].metadata, metrics)
                ELSE ComponentStatus("backend", backend_healthy,
                                     IF backend_healthy
                                     THEN "System container metrics"
                                     ELSE "System container has issues",
                                     None,
                                     [type |-> "system_container", virtual |-> TRUE],
                                     metrics)
           ELSE component_results[n]]

\* Lines 77-106: the metrics go under the backend node, real or virtual.
GroupUnderBackend(component_results, metrics) ==
    IF "backend" \in DOMAIN component_results
    THEN LET backend_component == component_results["backend"]
         IN [component_results EXCEPT !["backend"] =
                ComponentStatus(backend_component.name,
                                backend_component.healthy,
                                backend_component.message,
                                backend_component.response_time_ms,
                                backend_component.metadata,
                                metrics)]
    ELSE LET backend_healthy == VirtualBackendHealthy(metrics)
             backend_message == IF backend_healthy
                                THEN "System container metrics"
                                ELSE "System container has issues"
         IN [n \in DOMAIN component_results \cup {"backend"} |->
                IF n = "backend"
                THEN ComponentStatus("backend", backend_healthy, backend_message,
                                     None,
                                     [type |-> "system_container", virtual |-> TRUE],
                                     metrics)
                ELSE component_results[n]]

\* Lines 108-112: the components and their direct sub_components.
AllStatuses(component_results) ==
    {component_results[n] : n \in DOMAIN component_results}
    \cup UNION {{component_results[n].sub_components[k] :
                    k \in DOMAIN component_results[n].sub_components} :
                n \in DOMAIN component_results}

OverallHealthy(component_results) ==
    \A status \in AllStatuses(component_results) : status.healthy

\* The snapshot with the root's health taken from the top-level components
\* alone.
BuildSystemStatus_RootFromTopLevel(results, metrics, started) ==
    LET component_results == GroupUnderBackend(results, metrics)
        overall_healthy == OverallHealthy(component_results)
        aegis_healthy == \A n \in DOMAIN component_results : component_results[n].healthy
        aegis_message == IF aegis_healthy THEN "Aegis Stack application"
                         ELSE "Aegis Stack has issues"
    IN [components |->
            ("aegis" :> ComponentStatus("aegis", aegis_healthy, aegis_message, None,
                                        [type |-> "application_root", version |-> "1.0"],
                                        component_results)),
        overall_healthy |-> overall_healthy,
        timestamp |-> started]

\* Lines 77-139.
BuildSystemStatus(results, metrics, started) ==
    LET component_results == GroupUnderBackend(results, metrics)
        overall_healthy == OverallHealthy(component_results)
        aegis_healthy == OverallHealthy(component_results)
        aegis_message == IF aegis_healthy THEN "Aegis Stack application"
                         ELSE "Aegis Stack has issues"
    IN [components |->
            ("aegis" :> ComponentStatus("aegis", aegis_healthy, aegis_message, None,
                                        [type |-> "application_root", version |-> "1.0"],
                                        component_results)),
        overall_healthy |-> overall_healthy,
        timestamp |-> started]

\* `await task` with its except clause (lines 62-72, and 234-245 for a
\* metric): whether the loop gets past the task, and with what status.  A task
\* that ended with an exception gets the status of the except clause; the loop
\* is left when the task was cancelled or when the clause cannot take the text
\* of the exception.
AwaitRaises(task) ==
    \/ task.state = "CANCELLED"
    \/ task.state = "COMPLETED" /\ task.exception # None
         /\ HandlerRaises(task.exception[1]) # None

Awaited(task) == task.state = "COMPLETED" /\ ~AwaitRaises(task)

AllAwaited(tasks) == \A k \in DOMAIN tasks : Awaited(tasks[k])

AwaitedStatus(name, task) ==
    IF task.result # None THEN task.result[1]
    ELSE ComponentStatus(name, FALSE,
                         "Health check failed: " \o task.exception[1].text[1],
                         None, EmptyMap, EmptyMap)

\* The results dict if the first exception ended the collection: only the
\* tasks that raised are in it.
ResultsOf_StopAtRaise(tasks) ==
    LET raised == {n \in DOMAIN tasks : tasks[n].returned[1].kind = "raise"}
    IN [n \in (IF raised = {} THEN DOMAIN tasks ELSE raised) |->
           AwaitedStatus(n, tasks[n])]

\* The time at which a task that returned a status finished, from its elapsed
\* time.
FinishedAt(task) == task.started + task.result[1].response_time_ms[1] \div 1000

\* The results dict if, of the tasks that returned a status, only those that
\* completed first were collected.
ResultsOf_FirstCompleted(tasks) ==
    LET returned == {n \in DOMAIN tasks : tasks[n].result # None}
        first == {n \in returned :
                     \A k \in returned : FinishedAt(tasks[n]) <= FinishedAt(tasks[k])}
    IN [n \in first \cup (DOMAIN tasks \ returned) |-> AwaitedStatus(n, tasks[n])]

\* The results dict of the component tasks (lines 61-72): one entry per task.
ResultsOf(tasks) == [n \in DOMAIN tasks |-> AwaitedStatus(n, tasks[n])]

(***************************************************************************)
(* The metric cache: _get_cached_system_metrics.                           *)
(***************************************************************************)
\* The age check with <= for <.
CacheFresh_Inclusive(cache, metric, current_time) ==
    /\ metric \in DOMAIN cache
    /\ (current_time - cache[metric].time) <= SYSTEM_METRICS_CACHE_SECONDS

\* age_seconds < cache_duration, for an entry that exists
CacheFresh(cache, metric, current_time) ==
    /\ metric \in DOMAIN cache
    /\ (current_time - cache[metric].time) < SYSTEM_METRICS_CACHE_SECONDS

\* The cache used only when every metric's entry is fresh.
CacheHits_AllOrNothing(cache, current_time) ==
    IF \A m \in MetricNames : CacheFresh(cache, m, current_time)
    THEN MetricNames
    ELSE {}

CacheHits(cache, current_time) ==
    {m \in MetricNames : CacheFresh(cache, m, current_time)}

\* A registration reaching into the polls in flight, as if get_system_status
\* read the registry while it awaits its tasks.
register_health_check_IntoRunningPoll(name, check_fn) ==
    /\ health_checks' =
           [n \in DOMAIN health_checks \cup {name} |->
               IF n = name THEN check_fn ELSE health_checks[n]]
    /\ last_registered' = Some([name |-> name, check_fn |-> check_fn])
    /\ health_order' = KeysAfterSet(health_order, name)
    /\ component_tasks' =
           [p \in Polls |->
               IF pc[p] = "probes"
               THEN [n \in DOMAIN component_tasks[p] \cup {name} |->
                        IF n \in DOMAIN component_tasks[p]
                        THEN component_tasks[p][n] ELSE NewTask(check_fn)]
               ELSE component_tasks[p]]
    /\ UNCHANGED <<metrics_cache, now, os_sample, pc, start_time,
                   metric_tasks, system_metrics, snapshot>>
    /\ UNCHANGED <<cli_vars, gen_vars, life_vars, worker_vars>>

(***************************************************************************)
(* Actions of the health aggregation.                                      *)
(***************************************************************************)
\* register_health_check keeping the probe a name already has.
register_health_check_KeepFirst(name, check_fn) ==
    /\ health_checks' =
           [n \in DOMAIN health_checks \cup {name} |->
               IF n \in DOMAIN health_checks THEN health_checks[n] ELSE check_fn]
    /\ last_registered' = Some([name |-> name, check_fn |-> check_fn])
    /\ health_order' = KeysAfterSet(health_order, name)
    /\ UNCHANGED <<metrics_cache, now, os_sample, pc, start_time,
                   component_tasks, metric_tasks, system_metrics, snapshot>>
    /\ UNCHANGED <<cli_vars, gen_vars, life_vars, worker_vars>>

\* register_health_check(name, check_fn)
register_health_check(name, check_fn) ==
    /\ health_checks' =
           [n \in DOMAIN health_checks \cup {name} |->
               IF n = name THEN check_fn ELSE health_checks[n]]
    /\ last_registered' = Some([name |-> name, check_fn |-> check_fn])
    /\ health_order' = KeysAfterSet(health_order, name)
    /\ UNCHANGED <<metrics_cache, now, os_sample, pc, start_time,
                   component_tasks, metric_tasks, system_metrics, snapshot>>
    /\ UNCHANGED <<cli_vars, gen_vars, life_vars, worker_vars>>

\* The age checks made against the clock at the moment of the check, not
\* against the time handed in.
EnterMetrics_AgeAtCheckTime(p, results, current_time) ==
    LET hits == CacheHits(metrics_cache, now)
        cached == [m \in hits |-> metrics_cache[m].status]
        fns == [m \in MetricNames \ hits |-> "_check_" \o m]
    IN /\ system_metrics' = [system_metrics EXCEPT ![p] = cached]
       /\ metric_tasks' = [metric_tasks EXCEPT ![p] =
                              [m \in DOMAIN fns |-> NewTask(fns[m])]]
       /\ IF hits = MetricNames
          THEN /\ pc' = [pc EXCEPT ![p] = "done"]
               /\ snapshot' = [snapshot EXCEPT ![p] =
                                  Some(BuildSystemStatus(results, cached, current_time))]
          ELSE /\ pc' = [pc EXCEPT ![p] = "metrics"]
               /\ UNCHANGED snapshot

\* get_system_status from the call of _get_cached_system_metrics (line 75) to
\* its next suspension: the age checks of the three metrics and the creation
\* of the tasks for the misses run without a suspension; with no miss there is
\* nothing to await and the function runs on to its return.
EnterMetrics(p, results, current_time) ==
    LET hits == CacheHits(metrics_cache, current_time)
        cached == [m \in hits |-> metrics_cache[m].status]
        fns == [m \in MetricNames \ hits |-> "_check_" \o m]
    IN /\ system_metrics' = [system_metrics EXCEPT ![p] = cached]
       /\ metric_tasks' = [metric_tasks EXCEPT ![p] =
                              [m \in DOMAIN fns |-> NewTask(fns[m])]]
       /\ IF hits = MetricNames
          THEN /\ pc' = [pc EXCEPT ![p] = "done"]
               /\ snapshot' = [snapshot EXCEPT ![p] =
                                  Some(BuildSystemStatus(results, cached, current_time))]
          ELSE /\ pc' = [pc EXCEPT ![p] = "metrics"]
               /\ UNCHANGED snapshot

\* get_system_status, lines 51-59: the clock is read and one task is created
\* per registered probe.  With no probe registered nothing is awaited and the
\* call runs on into _get_cached_system_metrics.
PollStart(p) ==
    /\ pc[p] = "idle"
    /\ start_time' = [start_time EXCEPT ![p] = now]
    /\ component_tasks' = [component_tasks EXCEPT ![p] =
                              [n \in DOMAIN health_checks |-> NewTask(health_checks[n])]]
    /\ IF DOMAIN health_checks = {}
       THEN EnterMetrics(p, EmptyMap, now)
       ELSE /\ pc' = [pc EXCEPT ![p] = "probes"]
            /\ UNCHANGED <<metric_tasks, system_metrics, snapshot>>
    /\ UNCHANGED <<health_checks, last_registered, health_order, metrics_cache, now, os_sample>>
    /\ UNCHANGED <<cli_vars, gen_vars, life_vars, worker_vars>>

\* The state of a task once its probe has returned or raised: _run_health_check
\* returns a status on either path of its try, or ends with an exception;
\* there is no loop around the probe.  The task is then done, with the result
\* or the exception; ended by a CancelledError it is cancelled.
TaskStateAfter(outcome) ==
    IF RunnerRaises(outcome) # None /\ ~IsException(RunnerRaises(outcome)[1])
    THEN "CANCELLED" ELSE "COMPLETED"

\* The fields of a task set when _run_health_check ends on `outcome`.
TaskDone(task, name, outcome, ended) ==
    [task EXCEPT !.state = TaskStateAfter(outcome),
                 !.returned = Some(outcome),
                 !.result = IF RunnerRaises(outcome) = None
                            THEN Some(_run_health_check(name, outcome, task.started, ended))
                            ELSE None,
                 !.exception = RunnerRaises(outcome)]

\* _run_health_check, line 262: the task starts, reads the clock and awaits
\* the probe.
TaskStart(p, name) ==
    /\ pc[p] \in {"probes", "raised"}
    /\ name \in DOMAIN component_tasks[p]
    /\ component_tasks[p][name].state = "PENDING"
    /\ component_tasks' = [component_tasks EXCEPT ![p][name] =
                              [@ EXCEPT !.state = "RUNNING", !.started = now]]
    /\ UNCHANGED <<health_checks, last_registered, health_order, metrics_cache, now, os_sample, pc, start_time,
                   metric_tasks, system_metrics, snapshot>>
    /\ UNCHANGED <<cli_vars, gen_vars, life_vars, worker_vars>>

\* _run_health_check, lines 263-286: the probe returns or raises, the elapsed
\* time is taken and the task ends: with a status, or with the exception that
\* the except clause does not catch or raises itself.
TaskFinishWith(p, name, outcome) ==
    /\ pc[p] \in {"probes", "raised"}
    /\ name \in DOMAIN component_tasks[p]
    /\ component_tasks[p][name].state = "RUNNING"
    /\ outcome \in ProbeOutcomes(name)
    /\ component_tasks' = [component_tasks EXCEPT ![p][name] =
           TaskDone(component_tasks[p][name], name, outcome, now)]
    /\ UNCHANGED <<health_checks, last_registered, health_order, metrics_cache, now, os_sample, pc, start_time,
                   metric_tasks, system_metrics, snapshot>>
    /\ UNCHANGED <<cli_vars, gen_vars, life_vars, worker_vars>>

\* The same, whatever the probe does.
TaskFinish(p, name) ==
    \E outcome \in ProbeOutcomes(name) : TaskFinishWith(p, name, outcome)

\* The names of a poll's tasks in the order the for loop of line 61 awaits
\* them: the order of _health_checks when the poll started.
AwaitOrder(p) ==
    SelectSeq(health_order, LAMBDA n : n \in DOMAIN component_tasks[p])

\* Whether a loop that awaits `tasks` in `order` is left with an exception:
\* it reaches a task once every task before it is done and collected.
LoopRaises(order, tasks) ==
    \E i \in 1..Len(order) :
        /\ AwaitRaises(tasks[order[i]])
        /\ \A j \in 1..(i - 1) : Awaited(tasks[order[j]])

\* get_system_status, lines 61-72: `await task` raises CancelledError on a
\* cancelled task, which `except Exception` does not catch, and the except
\* clause itself raises when str(e) does: the call ends with the exception and
\* no snapshot.  The tasks after that one are left running.
PollRaise(p) ==
    /\ pc[p] = "probes"
    /\ LoopRaises(AwaitOrder(p), component_tasks[p])
    /\ pc' = [pc EXCEPT ![p] = "raised"]
    /\ UNCHANGED <<health_checks, last_registered, health_order, metrics_cache, now,
                   os_sample, start_time, component_tasks, metric_tasks,
                   system_metrics, snapshot>>
    /\ UNCHANGED <<cli_vars, gen_vars, life_vars, worker_vars>>

\* get_system_status, lines 61-75: every task has been awaited; the results
\* are collected and the metrics are looked up.
PollCollect(p) ==
    /\ pc[p] = "probes"
    /\ AllAwaited(component_tasks[p])
    /\ EnterMetrics(p, ResultsOf(component_tasks[p]), start_time[p])
    /\ UNCHANGED <<health_checks, last_registered, health_order, metrics_cache, now, os_sample, start_time,
                   component_tasks>>
    /\ UNCHANGED <<cli_vars, gen_vars, life_vars, worker_vars>>

\* _run_health_check_with_cache -> _run_health_check -> the metric probe, up
\* to `await asyncio.to_thread(...)`: the clock is read and the psutil call is
\* handed to a worker thread.
MetricStart(p, metric) ==
    /\ pc[p] \in {"metrics", "raised"}
    /\ metric \in DOMAIN metric_tasks[p]
    /\ metric_tasks[p][metric].state = "PENDING"
    /\ metric_tasks' = [metric_tasks EXCEPT ![p][metric] =
                           [@ EXCEPT !.state = "RUNNING", !.started = now]]
    /\ UNCHANGED <<health_checks, last_registered, health_order, metrics_cache, now, os_sample, pc, start_time,
                   component_tasks, system_metrics, snapshot>>
    /\ UNCHANGED <<cli_vars, gen_vars, life_vars, worker_vars>>

\* What the psutil call of a metric probe can hand back now.
PsutilReadings(metric) ==
    {Reading(metric, os_sample[metric])} \cup {ReadingFailed(e) : e \in PsutilErrors}

\* The worker thread runs the psutil call: the measurement is the one of this
\* moment.  The coroutine resumes later, with the event loop's next turn.
MetricSample(p, metric, reading) ==
    /\ pc[p] \in {"metrics", "raised"}
    /\ metric \in DOMAIN metric_tasks[p]
    /\ metric_tasks[p][metric].state = "RUNNING"
    /\ metric_tasks[p][metric].reading = None
    /\ reading \in PsutilReadings(metric)
    /\ metric_tasks' = [metric_tasks EXCEPT ![p][metric].reading = Some(reading)]
    /\ UNCHANGED <<health_checks, last_registered, health_order, metrics_cache, now, os_sample, pc, start_time,
                   component_tasks, system_metrics, snapshot>>
    /\ UNCHANGED <<cli_vars, gen_vars, life_vars, worker_vars>>

\* The cache write of _run_health_check_with_cache, line 254.
CacheStore(cache, metric, result, timestamp) ==
    [m \in DOMAIN cache \cup {metric} |->
        IF m = metric THEN [status |-> result, time |-> timestamp] ELSE cache[m]]

\* The metric probe resumes with what the worker thread read and builds its
\* status, _run_health_check sets the elapsed time, and
\* _run_health_check_with_cache stores the result with the poll's timestamp.
\* When _run_health_check ends with an exception, line 254 is not reached.
MetricFinish(p, metric) ==
    /\ pc[p] \in {"metrics", "raised"}
    /\ metric \in DOMAIN metric_tasks[p]
    /\ metric_tasks[p][metric].state = "RUNNING"
    /\ metric_tasks[p][metric].reading # None
    /\ \E done \in {TaskDone(metric_tasks[p][metric], metric,
                              MetricCheck(metric, metric_tasks[p][metric].reading[1]), now)} :
          /\ metric_tasks' = [metric_tasks EXCEPT ![p][metric] = done]
          /\ metrics_cache' =
                 IF done.result # None
                 THEN CacheStore(metrics_cache, metric, done.result[1], start_time[p])
                 ELSE metrics_cache
    /\ UNCHANGED <<health_checks, last_registered, health_order, now, os_sample, pc, start_time,
                   component_tasks, system_metrics, snapshot>>
    /\ UNCHANGED <<cli_vars, gen_vars, life_vars, worker_vars>>

\* system_metric_checks.items(), in dict order, and the tasks of a poll in the
\* order the loop of line 234 awaits them.
MetricOrder == <<"memory", "disk", "cpu">>

MetricAwaitOrder(p) == SelectSeq(MetricOrder, LAMBDA m : m \in DOMAIN metric_tasks[p])

\* _get_cached_system_metrics, lines 234-245: the except clause of the loop
\* raises when str(e) does, and the exception leaves get_system_status.
MetricsRaise(p) ==
    /\ pc[p] = "metrics"
    /\ LoopRaises(MetricAwaitOrder(p), metric_tasks[p])
    /\ pc' = [pc EXCEPT ![p] = "raised"]
    /\ UNCHANGED <<health_checks, last_registered, health_order, metrics_cache, now,
                   os_sample, start_time, component_tasks, metric_tasks,
                   system_metrics, snapshot>>
    /\ UNCHANGED <<cli_vars, gen_vars, life_vars, worker_vars>>

\* _get_cached_system_metrics, lines 233-246, and get_system_status from line
\* 77 on: the metric tasks have been awaited and the snapshot is built.
PollFinish(p) ==
    /\ pc[p] = "metrics"
    /\ AllAwaited(metric_tasks[p])
    /\ LET metrics == [m \in MetricNames |->
                          IF m \in DOMAIN metric_tasks[p]
                          THEN AwaitedStatus(m, metric_tasks[p][m])
                          ELSE system_metrics[p][m]]
       IN /\ system_metrics' = [system_metrics EXCEPT ![p] = metrics]
          /\ snapshot' = [snapshot EXCEPT ![p] =
                 Some(BuildSystemStatus(ResultsOf(component_tasks[p]), metrics,
                                        start_time[p]))]
    /\ pc' = [pc EXCEPT ![p] = "done"]
    /\ UNCHANGED <<health_checks, last_registered, health_order, metrics_cache, now, os_sample, start_time,
                   component_tasks, metric_tasks>>
    /\ UNCHANGED <<cli_vars, gen_vars, life_vars, worker_vars>>

\* get_system_status, line 148: the call returns its snapshot to the caller.
\* Every task the call created has been awaited; nothing of it remains.
PollReturn(p) ==
    /\ pc[p] = "done"
    /\ pc' = [pc EXCEPT ![p] = "idle"]
    /\ start_time' = [start_time EXCEPT ![p] = 0]
    /\ component_tasks' = [component_tasks EXCEPT ![p] = EmptyMap]
    /\ metric_tasks' = [metric_tasks EXCEPT ![p] = EmptyMap]
    /\ system_metrics' = [system_metrics EXCEPT ![p] = EmptyMap]
    /\ snapshot' = [snapshot EXCEPT ![p] = None]
    /\ UNCHANGED <<health_checks, last_registered, health_order, metrics_cache, now, os_sample>>
    /\ UNCHANGED <<cli_vars, gen_vars, life_vars, worker_vars>>

\* Every task of the call has ended.
TasksOver(p) ==
    /\ \A n \in DOMAIN component_tasks[p] :
           component_tasks[p][n].state \notin {"PENDING", "RUNNING"}
    /\ \A m \in DOMAIN metric_tasks[p] :
           metric_tasks[p][m].state \notin {"PENDING", "RUNNING"}

\* A call that raised is over for its caller in the step in which it raises
\* (PollRaise, MetricsRaise): the caller holds the exception and may call
\* again at once.  The tasks the call had not awaited stay in the event loop
\* and run to their end, a metric task to its cache write of line 254.  When
\* the last of them has ended nothing of the call remains.
TasksLeftBehindEnd(p) ==
    /\ pc[p] = "raised"
    /\ TasksOver(p)
    /\ pc' = [pc EXCEPT ![p] = "idle"]
    /\ start_time' = [start_time EXCEPT ![p] = 0]
    /\ component_tasks' = [component_tasks EXCEPT ![p] = EmptyMap]
    /\ metric_tasks' = [metric_tasks EXCEPT ![p] = EmptyMap]
    /\ system_metrics' = [system_metrics EXCEPT ![p] = EmptyMap]
    /\ snapshot' = [snapshot EXCEPT ![p] = None]
    /\ UNCHANGED <<health_checks, last_registered, health_order, metrics_cache, now, os_sample>>
    /\ UNCHANGED <<cli_vars, gen_vars, life_vars, worker_vars>>

\* The caller is inside no call: each call it made has returned or raised.
CallerFree == \A q \in Polls : pc[q] \in {"idle", "raised"}

\* The next call of a caller whose calls follow one another.  The calls are
\* interchangeable: when call 1 has left nothing behind it is the one made.
NextCall(p) == CallerFree /\ (p = 1 \/ pc[1] # "idle")

\* No task created by a poll is waiting to be started.  The event loop starts
\* the tasks it has been handed before it does anything else, so the clock is
\* read as unchanged between line 227 and the start of the last task; it
\* advances freely while a probe runs in its worker thread.
NoMetricPending ==
    \A p \in Polls : \A m \in DOMAIN metric_tasks[p] :
        metric_tasks[p][m].state # "PENDING"

\* The event loop starts the tasks of a poll in the order in which line 227
\* created them: its queue of ready tasks is first in, first out.
StartedInCreationOrder(p, metric) ==
    \A i, j \in 1..Len(MetricAwaitOrder(p)) :
        (i < j /\ MetricAwaitOrder(p)[j] = metric) =>
            metric_tasks[p][MetricAwaitOrder(p)[i]].state # "PENDING"

\* The tasks of poll p have all been started: they were in the queue of ready
\* tasks before the resumption of any of them could be put there.
AllStarted(p) ==
    \A m \in DOMAIN metric_tasks[p] : metric_tasks[p][m].state # "PENDING"

\* A worker thread is about to take the measurement of the metric.  What the
\* operating system would measure matters at those moments only.
AboutToSample(metric) ==
    \E p \in Polls :
        /\ metric \in DOMAIN metric_tasks[p]
        /\ metric_tasks[p][metric].state = "RUNNING"
        /\ metric_tasks[p][metric].reading = None

\* Time passes, by just under the cache duration or by exactly it.
TickSteps == {SYSTEM_METRICS_CACHE_SECONDS - 1, SYSTEM_METRICS_CACHE_SECONDS}

Tick(d) ==
    /\ now + d <= MaxTime
    /\ now' = now + d
    /\ UNCHANGED <<health_checks, last_registered, health_order, metrics_cache, os_sample, pc, start_time,
                   component_tasks, metric_tasks, system_metrics, snapshot>>
    /\ UNCHANGED <<cli_vars, gen_vars, life_vars, worker_vars>>

\* The operating system's measurement of a metric changes.
SampleChange(metric, v) ==
    /\ v # os_sample[metric]
    /\ os_sample' = [os_sample EXCEPT ![metric] = v]
    /\ UNCHANGED <<health_checks, last_registered, health_order, metrics_cache, now, pc, start_time,
                   component_tasks, metric_tasks, system_metrics, snapshot>>
    /\ UNCHANGED <<cli_vars, gen_vars, life_vars, worker_vars>>

(***************************************************************************)
(* Specifications.                                                         *)
(***************************************************************************)
\* The health module as imported: nothing registered, nothing cached.
(***************************************************************************)
(* check_worker_health: the arq queues of settings.WORKER_QUEUES, the      *)
(* health-check key arq keeps per queue in Redis, and the status built      *)
(* from them.                                                               *)
(***************************************************************************)
QueueTypes == {"media", "system"}

QueueDescription(queue_type) ==
    CASE queue_type = "media" -> "Image and file processing"
      [] queue_type = "system" -> "System maintenance and monitoring tasks"

\* A health-check string as its parts: "Mar-01 17:41:22 j_complete=3 j_failed=1 ...".
Token(key, value) == [key |-> key, value |-> value]

HealthStrings ==
    {<<>>,
     <<Token("timestamp", 0), Token("j_complete", 0), Token("j_failed", 0),
       Token("j_retried", 0), Token("j_ongoing", 0)>>,
     <<Token("timestamp", 0), Token("j_complete", 4), Token("j_failed", 1),
       Token("j_retried", 1), Token("j_ongoing", 1)>>,
     <<Token("timestamp", 0), Token("j_complete", 3), Token("j_failed", 1),
       Token("j_retried", 0), Token("j_ongoing", 0)>>,
     <<Token("j_failed", 1)>>}

\* A value of the health-check key that has no decode(): a str, as a client
\* made with decode_responses gives.
NotBytes == <<Token("str", 0)>>

\* What Redis holds about one queue: the length of its list and the value of
\* its health-check key (None without the key).
RedisStates ==
    {[queue_length |-> len, health_check_data |-> data] :
        len \in {0, 2},
        data \in {None} \cup {Some(h) : h \in HealthStrings \cup {NotBytes}}}

\* What a call on the Redis client can raise: an error of the connection, an
\* ImportError (a lazy import inside the client), an exception whose text
\* cannot be taken, or asyncio.CancelledError.
RedisErrors ==
    {Error("ConnectionError", "redis error"), Error("ImportError", "no module"),
     Unprintable1, Unprintable2, CancelledError}

\* The texts of the errors the handler of one queue turns into a status.
QueueErrorTexts == {e.text[1] : e \in {x \in RedisErrors : HandlerRaises(x) = None}}

\* What the two calls of one queue's check give when the loop goes on to the
\* next queue: llen and get answer, or one of them raises an exception whose
\* text the handler takes; queue_length is what llen answered before get
\* raised, 0 when llen itself raised.
RedisAnswers ==
    {[raises |-> TRUE, error |-> text, queue_length |-> len, health_check_data |-> None] :
        text \in QueueErrorTexts, len \in {0, 2}}
    \cup {[raises |-> FALSE, error |-> "", queue_length |-> st.queue_length,
           health_check_data |-> st.health_check_data] : st \in RedisStates}

\* How an awaited call ends: with its answer, or with an exception.
CallOutcomes ==
    {[kind |-> "answer"]} \cup {[kind |-> "raise", error |-> e] : e \in RedisErrors}

WorkerOffline == [queue_length |-> 0, health_check_data |-> None]

\* re.search(r"<key>=(\d+)", health_string): the first match, or none.
StatMatch(health_string, key) ==
    LET at == {i \in 1..Len(health_string) : health_string[i].key = key}
    IN IF at = {} THEN None
       ELSE Some(health_string[CHOOSE i \in at : \A k \in at : i <= k].value)

\* j_x stays 0 without a match (lines 539, 561-572).
StatOf(health_string, key) ==
    IF StatMatch(health_string, key) = None THEN 0 ELSE StatMatch(health_string, key)[1]

MaxOf(a, b) == IF a >= b THEN a ELSE b

\* The threshold met from the wrong side: a rate of 25 % passing.
QueueHealthy_Inclusive(worker_alive, j_complete, j_failed) ==
    worker_alive /\ j_failed * 100 <= 25 * MaxOf(j_complete + j_failed, 1)

\* Lines 601-608: worker_alive and failure_rate < 25.
QueueHealthy(worker_alive, j_complete, j_failed) ==
    worker_alive /\ j_failed * 100 < 25 * MaxOf(j_complete + j_failed, 1)

RECURSIVE JoinComma(_)
\* ', '.join(parts)
JoinComma(parts) ==
    IF parts = <<>> THEN ""
    ELSE IF Len(parts) = 1 THEN parts[1]
    ELSE parts[1] \o ", " \o JoinComma(Tail(parts))

\* The except branch of one queue's check (lines 648-662): total_queued keeps
\* the length added at line 531 before the exception.
QueueCheckFailed(queue_type, queue_length, error) ==
    [status |-> ComponentStatus(queue_type, FALSE,
                                "Queue check failed: " \o error, None,
                                [queue_type |-> queue_type, error |-> error],
                                EmptyMap),
     alive |-> 0, queued |-> queue_length, completed |-> 0, failed |-> 0, ongoing |-> 0]

\* Lines 521-662: the check of one queue, with what it adds to the totals.
CheckQueue(queue_type, answer) ==
    IF answer.raises
    THEN QueueCheckFailed(queue_type, answer.queue_length, answer.error)
    ELSE IF answer.health_check_data = Some(NotBytes)
    THEN QueueCheckFailed(queue_type, answer.queue_length,
                          "'str' object has no attribute 'decode'")
    ELSE LET data == answer.health_check_data
             worker_alive == data # None /\ data[1] # <<>>
             health_string == IF worker_alive THEN data[1] ELSE <<>>
             j_complete == StatOf(health_string, "j_complete")
             j_failed == StatOf(health_string, "j_failed")
             j_retried == StatOf(health_string, "j_retried")
             j_ongoing == StatOf(health_string, "j_ongoing")
             queue_length == answer.queue_length
             first_part == IF ~worker_alive THEN "worker offline"
                           ELSE IF j_ongoing > 0 THEN ToString(j_ongoing) \o " processing"
                           ELSE IF queue_length > 0 THEN ToString(queue_length) \o " queued"
                           ELSE "idle"
             failed_part == IF worker_alive /\ j_failed > 0
                            THEN <<ToString(j_failed) \o " failed ("
                                     \o FormatRate1(j_failed, MaxOf(j_complete + j_failed, 1))
                                     \o "%)">>
                            ELSE <<>>
             completed_part == IF worker_alive /\ j_complete > 0
                               THEN <<ToString(j_complete) \o " completed">>
                               ELSE <<>>
             queue_message == QueueDescription(queue_type) \o ": "
                                 \o JoinComma(<<first_part>> \o failed_part \o completed_part)
             queue_healthy == QueueHealthy(worker_alive, j_complete, j_failed)
             queue_metadata ==
                 IF worker_alive
                 THEN [queue_type |-> queue_type, queued_jobs |-> queue_length,
                       worker_alive |-> TRUE, jobs_completed |-> j_complete,
                       jobs_failed |-> j_failed, jobs_retried |-> j_retried,
                       jobs_ongoing |-> j_ongoing]
                 ELSE [queue_type |-> queue_type, queued_jobs |-> queue_length,
                       worker_alive |-> FALSE,
                       offline_reason |-> "Health check key not found"]
         IN [status |-> ComponentStatus(queue_type, queue_healthy, queue_message, None,
                                        queue_metadata, EmptyMap),
             alive |-> IF worker_alive THEN 1 ELSE 0,
             queued |-> queue_length, completed |-> j_complete,
             failed |-> j_failed, ongoing |-> j_ongoing]

RECURSIVE SumOver(_, _, _)
SumOver(checks, queues, field) ==
    IF queues = {} THEN 0
    ELSE LET q == CHOOSE x \in queues : TRUE
         IN checks[q][field] + SumOver(checks, queues \ {q}, field)

\* overall_healthy of check_worker_health (lines 518, 610-611, 650, 668-670).
WorkerHealthy(queue_sub_components, active_workers) ==
    /\ \A q \in DOMAIN queue_sub_components : queue_sub_components[q].healthy
    /\ active_workers # 0

\* check_worker_health with Redis answering (lines 491-733).
WorkerStatus(queues, answers) ==
    LET checks == [q \in queues |-> CheckQueue(q, answers[q])]
        queue_sub_components == [q \in queues |-> checks[q].status]
        active_workers == SumOver(checks, queues, "alive")
        total_queued == SumOver(checks, queues, "queued")
        total_completed == SumOver(checks, queues, "completed")
        total_failed == SumOver(checks, queues, "failed")
        total_ongoing == SumOver(checks, queues, "ongoing")
        configured == Cardinality(queues)
        workers_part == IF active_workers = 0 THEN "No active workers"
                        ELSE ToString(active_workers) \o "/" \o ToString(configured)
                                \o " workers active"
        message_parts ==
            <<workers_part>>
            \o (IF total_queued > 0 THEN <<ToString(total_queued) \o " queued">> ELSE <<>>)
            \o (IF total_ongoing > 0 THEN <<ToString(total_ongoing) \o " processing">>
                ELSE <<>>)
            \o (IF total_failed > 0
                THEN <<ToString(total_failed) \o " failed ("
                         \o FormatRate1(total_failed,
                                        MaxOf(total_completed + total_failed, 1))
                         \o "%)">>
                ELSE <<>>)
        queues_healthy == \A q \in queues : queue_sub_components[q].healthy
        queues_message == ToString(configured) \o " functional queues configured"
                             \o (IF active_workers < configured
                                 THEN " (" \o ToString(active_workers) \o " active)"
                                 ELSE "")
        queues_component ==
            ComponentStatus("queues", queues_healthy, queues_message, None,
                            [configured_queues |-> configured,
                             active_workers |-> active_workers],
                            queue_sub_components)
    IN ComponentStatus("worker", WorkerHealthy(queue_sub_components, active_workers),
                       "arq worker infrastructure: " \o JoinComma(message_parts), None,
                       [total_queued |-> total_queued,
                        total_completed |-> total_completed,
                        total_failed |-> total_failed,
                        total_ongoing |-> total_ongoing],
                       ("queues" :> queues_component))

\* The except ImportError branch of check_worker_health (lines 735-742).
WorkerImportFailed ==
    ComponentStatus("worker", FALSE,
                    "Redis library not available for worker health check", None,
                    EmptyMap, EmptyMap)

\* The except Exception branch of check_worker_health (lines 743-755).
WorkerCheckFailed(error) ==
    ComponentStatus("worker", FALSE, "Worker health check failed: " \o error, None,
                    [error |-> error], EmptyMap)

\* The except clauses of lines 735-755 on an exception that reaches them: the
\* status check_worker_health returns, or None when the exception (or the one
\* str(e) raises at line 744) leaves the function.
OuterHandler(e) ==
    IF e.class = "ImportError" THEN Some(WorkerImportFailed)
    ELSE IF HandlerRaises(e) # None THEN None
    ELSE Some(WorkerCheckFailed(e.text[1]))

\* Redis changes what it holds about one queue: jobs arrive or are taken, a
\* worker writes or drops its health-check key.
RedisChange(queue_type, state) ==
    /\ queue_type \in worker_queues
    /\ state # redis_obs[queue_type]
    /\ redis_obs' = [redis_obs EXCEPT ![queue_type] = state]
    /\ UNCHANGED <<worker_queues, worker_pc, worker_answers, worker_queue_length,
                   worker_status>>
    /\ UNCHANGED <<cli_vars, health_vars, gen_vars, life_vars>>

\* settings.WORKER_QUEUES.items(), in the order of config.py.
QueueOrder == <<"media", "system">>

\* The queues the for loop of line 521 has still to check, in its order.
QueuesLeft(answers) ==
    SelectSeq(QueueOrder, LAMBDA q : q \in worker_queues /\ q \notin DOMAIN answers)

\* The await the call reaches once the queues in `answers` are checked: the
\* llen of the next queue, or the close of the connection after the last.
AfterQueue(answers) ==
    IF QueuesLeft(answers) = <<>> THEN "close" ELSE "llen"

\* What making the client can raise before the first await: the import of
\* redis fails, or from_url raises.
SetupErrors ==
    {Error("ImportError", "no module"), Error("ValueError", "bad url"), Unprintable1}

\* await check_worker_health(), up to its first await: an exception of the
\* import or of from_url goes to the outer handlers and the call ends at once;
\* otherwise the loop over the queues starts.
check_worker_health ==
    /\ worker_pc \in {"idle", "raised"}
    /\ \/ /\ worker_pc' = AfterQueue(EmptyMap)
          /\ worker_status' = None
       \/ \E e \in SetupErrors :
             /\ worker_pc' = IF OuterHandler(e) = None THEN "raised" ELSE "idle"
             /\ worker_status' = OuterHandler(e)
    /\ worker_answers' = EmptyMap
    /\ worker_queue_length' = 0
    /\ UNCHANGED <<worker_queues, redis_obs>>
    /\ UNCHANGED <<cli_vars, health_vars, gen_vars, life_vars>>

\* An exception leaves the loop over the queues, or close raises: the outer
\* handlers return a status or let an exception out; the locals of the call
\* end with it.
LeaveWith(e) ==
    /\ worker_pc' = IF OuterHandler(e) = None THEN "raised" ELSE "idle"
    /\ worker_status' = OuterHandler(e)
    /\ worker_answers' = EmptyMap
    /\ worker_queue_length' = 0

\* The answer the handler of one queue (lines 648-662) leaves for the queue.
QueueFailed(queue_length, e) ==
    [raises |-> TRUE, error |-> e.text[1], queue_length |-> queue_length,
     health_check_data |-> None]

\* Lines 524-536: llen of the queue being checked comes back and, when it
\* answered, get is called.  An exception goes to the handler of the queue,
\* and on to the outer handlers when that one does not catch it or raises at
\* line 649.
LlenReturns(outcome) ==
    /\ worker_pc = "llen"
    /\ LET queue_type == QueuesLeft(worker_answers)[1]
       IN IF outcome.kind = "answer"
          THEN /\ worker_queue_length' = redis_obs[queue_type].queue_length
               /\ worker_pc' = "get"
               /\ UNCHANGED <<worker_answers, worker_status>>
          ELSE IF HandlerRaises(outcome.error) # None
          THEN LeaveWith(HandlerRaises(outcome.error)[1])
          ELSE LET failed == worker_answers @@
                                (queue_type :> QueueFailed(0, outcome.error))
               IN /\ worker_answers' = failed
                  /\ worker_pc' = AfterQueue(failed)
                  /\ UNCHANGED <<worker_queue_length, worker_status>>
    /\ UNCHANGED <<worker_queues, redis_obs>>
    /\ UNCHANGED <<cli_vars, health_vars, gen_vars, life_vars>>

\* Lines 536-662: get of the health-check key comes back; the queue's status
\* is built and the loop goes on.
GetReturns(outcome) ==
    /\ worker_pc = "get"
    /\ LET queue_type == QueuesLeft(worker_answers)[1]
           answer == IF outcome.kind = "answer"
                     THEN [raises |-> FALSE, error |-> "",
                           queue_length |-> worker_queue_length,
                           health_check_data |-> redis_obs[queue_type].health_check_data]
                     ELSE QueueFailed(worker_queue_length, outcome.error)
           checked == worker_answers @@ (queue_type :> answer)
       IN IF outcome.kind = "raise" /\ HandlerRaises(outcome.error) # None
          THEN LeaveWith(HandlerRaises(outcome.error)[1])
          ELSE /\ worker_answers' = checked
               /\ worker_pc' = AfterQueue(checked)
               /\ worker_queue_length' = 0
               /\ UNCHANGED worker_status
    /\ UNCHANGED <<worker_queues, redis_obs>>
    /\ UNCHANGED <<cli_vars, health_vars, gen_vars, life_vars>>

\* Lines 664-755: close of the connection comes back and the status is
\* returned; an exception of close goes to the outer handlers.
CloseReturns(outcome) ==
    /\ worker_pc = "close"
    /\ IF outcome.kind = "answer"
       THEN /\ worker_status' = Some(WorkerStatus(worker_queues, worker_answers))
            /\ worker_pc' = "idle"
            /\ worker_answers' = EmptyMap
            /\ worker_queue_length' = 0
       ELSE LeaveWith(outcome.error)
    /\ UNCHANGED <<worker_queues, redis_obs>>
    /\ UNCHANGED <<cli_vars, health_vars, gen_vars, life_vars>>

\* The worker probe before its first call, with the queues of config.py and no
\* worker running.
WorkerIdle ==
    /\ worker_queues = QueueTypes
    /\ redis_obs = [q \in QueueTypes |-> WorkerOffline]
    /\ worker_pc = "idle"
    /\ worker_answers = EmptyMap
    /\ worker_queue_length = 0
    /\ worker_status = None

\* The lifecycle registries as app/core/lifecycle.py creates them, before any
\* service module is imported.
LifeInit ==
    /\ STARTUP_TASKS = <<>>
    /\ SHUTDOWN_TASKS = <<>>
    /\ life_pc = "import"
    /\ life_i = 1
    /\ life_awaiting = FALSE
    /\ life_log = <<>>

HealthInit ==
    /\ health_checks = EmptyMap
    /\ last_registered = None
    /\ health_order = <<>>
    /\ metrics_cache = EmptyMap
    /\ now = 0
    /\ os_sample = [m \in MetricNames |-> ThresholdPercent(m) * 100 - 4]
    /\ pc = [p \in Polls |-> "idle"]
    /\ start_time = [p \in Polls |-> 0]
    /\ component_tasks = [p \in Polls |-> EmptyMap]
    /\ metric_tasks = [p \in Polls |-> EmptyMap]
    /\ system_metrics = [p \in Polls |-> EmptyMap]
    /\ snapshot = [p \in Polls |-> None]

\* No generator is in a caller's hands: init builds its own and drops it.
GenIdle ==
    /\ template_gen = TemplateGenerator("My App", <<>>)
    /\ last_call = None

\* No command line is being run.
CliIdle ==
    /\ cli_pc = "exited"
    /\ argv = [project_name |-> "My App", value |-> None,
               interactive |-> FALSE, force |-> FALSE, yes |-> FALSE,
               dir_exists |-> FALSE]
    /\ selected = <<>>
    /\ errors = <<>>
    /\ resolved = {}
    /\ auto_added = {}
    /\ recommendations = {}
    /\ components = None
    /\ calls = <<>>
    /\ cookiecutter_args = None
    /\ exit_code = 0

\* One run of `aegis init` with any command line.
CliInit ==
    /\ cli_pc = "parse"
    /\ argv \in Argvs
    /\ selected = <<>>
    /\ errors = <<>>
    /\ resolved = {}
    /\ auto_added = {}
    /\ recommendations = {}
    /\ components = None
    /\ calls = <<>>
    /\ cookiecutter_args = None
    /\ exit_code = -1

Init == CliInit /\ HealthInit /\ GenIdle /\ LifeInit /\ WorkerIdle

Next ==
    \/ validate_and_resolve_components
    \/ init

\* aegis init.
Spec == Init /\ [][Next]_vars

\* The steps by which a poll in progress advances: the event loop runs every
\* task that is ready, and every probe in flight terminates.  A metric is
\* unhealthy here when psutil fails.
PollProgress(p) ==
    \/ \E name \in HealthNames : TaskStart(p, name)
    \/ \E name \in HealthNames : TaskFinish(p, name)
    \/ PollRaise(p)
    \/ PollCollect(p)
    \/ \E metric \in MetricNames : MetricStart(p, metric)
    \/ \E metric \in MetricNames :
           \E reading \in {Reading(metric, os_sample[metric]),
                            ReadingFailed(Error("Exception", "psutil error"))} :
               MetricSample(p, metric, reading)
    \/ \E metric \in MetricNames : MetricFinish(p, metric)
    \/ PollFinish(p)

\* One call at a time over probes registered between the calls.  The clock
\* stands still and the measurements stay under their thresholds.  A call
\* that raises does so while it awaits the probes (lines 61-72), so the tasks
\* it leaves behind are probe tasks, which touch nothing outside their call;
\* the caller calls again when they have ended.  A caller that calls again
\* while tasks of its last call are running is in SpecCache, where those
\* tasks write to the metric cache.
InitHealth == CliIdle /\ HealthInit /\ GenIdle /\ LifeInit /\ WorkerIdle

NextHealth ==
    \/ \E name \in HealthNames, fn \in ProbeFns :
           pc[1] = "idle" /\ register_health_check(name, fn)
    \/ PollStart(1)
    \/ PollProgress(1)
    \/ PollReturn(1)
    \/ TasksLeftBehindEnd(1)

SpecHealth == InitHealth /\ [][NextHealth]_vars

\* The same with a fair event loop and probes that terminate.
SpecHealthFair == InitHealth /\ [][NextHealth]_vars /\ WF_vars(PollProgress(1))

\* Probes registered at any moment, also while a poll awaits its tasks; the
\* probes return a status or raise, and psutil answers.
ProbeOutcomesRegistry(name) ==
    {[kind |-> "status", status |-> Leaf(name, TRUE, "ok")],
     [kind |-> "raise", error |-> Error("Exception", "boom")]}

InitRegistry == CliIdle /\ HealthInit /\ GenIdle /\ LifeInit /\ WorkerIdle

NextRegistry ==
    \/ \E name \in HealthNames, fn \in ProbeFns : register_health_check(name, fn)
    \/ PollStart(1)
    \/ \E name \in HealthNames : TaskStart(1, name)
    \/ \E name \in HealthNames :
           \E outcome \in ProbeOutcomesRegistry(name) : TaskFinishWith(1, name, outcome)
    \/ PollCollect(1)
    \/ \E metric \in MetricNames : MetricStart(1, metric)
    \/ \E metric \in MetricNames : MetricSample(1, metric, Reading(metric, os_sample[metric]))
    \/ \E metric \in MetricNames : MetricFinish(1, metric)
    \/ PollFinish(1)
    \/ PollReturn(1)

SpecRegistry == InitRegistry /\ [][NextRegistry]_vars

\* The metric cache over time: no probe is registered, the calls of one caller
\* follow one another, the clock advances and the memory measurement moves
\* across its threshold; psutil fails on the disk: with an error that has a
\* text, with one that makes _run_health_check raise, with one that makes the
\* loop of _get_cached_system_metrics raise as well, or the await is
\* cancelled.  The caller calls again when its call has returned or raised,
\* at once or later: the tasks a call that raised has left in the event loop
\* then run beside the tasks of the next call.  The event loop starts the
\* tasks of a call in the order of their creation and before it resumes any
\* of them; the measurement of the memory is followed between the calls and
\* when a worker thread is about to take it.
InitCache == CliIdle /\ HealthInit /\ GenIdle /\ LifeInit /\ WorkerIdle

NextCache ==
    \/ \E p \in Polls : NextCall(p) /\ PollStart(p)
    \/ \E p \in Polls, metric \in MetricNames :
           StartedInCreationOrder(p, metric) /\ MetricStart(p, metric)
    \/ \E p \in Polls, metric \in MetricNames :
           MetricSample(p, metric, Reading(metric, os_sample[metric]))
    \/ \E p \in Polls :
           \E e \in {Error("Exception", "psutil error"), Unprintable2, Unprintable3,
                     CancelledError} :
               MetricSample(p, "disk", ReadingFailed(e))
    \/ \E p \in Polls, metric \in MetricNames : AllStarted(p) /\ MetricFinish(p, metric)
    \/ \E p \in Polls : MetricsRaise(p)
    \/ \E p \in Polls : PollFinish(p)
    \/ \E p \in Polls : PollReturn(p)
    \/ \E p \in Polls : TasksLeftBehindEnd(p)
    \/ \E d \in TickSteps : NoMetricPending /\ Tick(d)
    \/ \E v \in SampleValues("memory") :
           (CallerFree \/ AboutToSample("memory")) /\ SampleChange("memory", v)

SpecCache == InitCache /\ [][NextCache]_vars

\* The measurements around a threshold: well under it, under it but rounding
\* to it, on it, and over it.
BoundarySamples(metric) ==
    SampleValues(metric)
        \cup {ThresholdPercent(metric) * 100 - 250, ThresholdPercent(metric) * 100 + 35}

\* One poll on an empty cache while the measurements of the three metrics
\* move around their thresholds; psutil fails on the cpu in every way.  The
\* clock stands still.
InitMetrics == CliIdle /\ HealthInit /\ GenIdle /\ LifeInit /\ WorkerIdle

NextMetrics ==
    \/ PollStart(1)
    \/ \E metric \in MetricNames : MetricStart(1, metric)
    \/ \E metric \in MetricNames : MetricSample(1, metric, Reading(metric, os_sample[metric]))
    \/ \E e \in PsutilErrors : MetricSample(1, "cpu", ReadingFailed(e))
    \/ \E metric \in MetricNames : MetricFinish(1, metric)
    \/ MetricsRaise(1)
    \/ PollFinish(1)
    \/ \E metric \in MetricNames :
           \E v \in BoundarySamples(metric) : SampleChange(metric, v)

SpecMetrics == InitMetrics /\ [][NextMetrics]_vars

\* The metric cache right after a poll at time 0 in which every metric was
\* measured at once.
WarmCache ==
    [m \in MetricNames |->
        [status |-> _run_health_check(
                        m, MetricCheck(m, Reading(m, ThresholdPercent(m) * 100 - 4)), 0, 0),
         time |-> 0]]

\* One poll cycle right after an earlier one, so that the metrics come from
\* the cache; probes are registered before it, and the clock advances while
\* the probes of the cycle are in flight.
InitTiming ==
    /\ CliIdle
    /\ GenIdle
    /\ LifeInit /\ WorkerIdle
    /\ health_checks = EmptyMap
    /\ last_registered = None
    /\ health_order = <<>>
    /\ metrics_cache = WarmCache
    /\ now = 0
    /\ os_sample = [m \in MetricNames |-> ThresholdPercent(m) * 100 - 4]
    /\ pc = [p \in Polls |-> "idle"]
    /\ start_time = [p \in Polls |-> 0]
    /\ component_tasks = [p \in Polls |-> EmptyMap]
    /\ metric_tasks = [p \in Polls |-> EmptyMap]
    /\ system_metrics = [p \in Polls |-> EmptyMap]
    /\ snapshot = [p \in Polls |-> None]

NextTiming ==
    \/ \E name \in HealthNames, fn \in ProbeFns :
           pc[1] = "idle" /\ register_health_check(name, fn)
    \/ PollStart(1)
    \/ \E name \in HealthNames : TaskStart(1, name)
    \/ \E name \in HealthNames : TaskFinish(1, name)
    \/ PollRaise(1)
    \/ PollCollect(1)
    \/ \E d \in TickSteps : pc[1] = "probes" /\ Tick(d)

SpecTiming == InitTiming /\ [][NextTiming]_vars

\* Two callers poll at any moments, so that their cycles may overlap at the
\* suspension points of the metric probes; no probe is registered.  The first
\* polls find the disk and the cpu in the cache and race for the memory entry,
\* the later ones for all three.  The clock advances while probes are in
\* flight, and the memory measurement moves between two values, so that two
\* runs of a probe differ in their status or their elapsed time.

\* The metric cache right after a poll at time 0 in which the disk and the cpu
\* were measured at once and the run of the memory probe ended with an
\* exception (line 254 was not reached for it): memory has no entry.
CacheWithoutMemory == [m \in {"disk", "cpu"} |-> WarmCache[m]]

InitRace ==
    /\ CliIdle
    /\ GenIdle
    /\ LifeInit /\ WorkerIdle
    /\ health_checks = EmptyMap
    /\ last_registered = None
    /\ health_order = <<>>
    /\ metrics_cache = CacheWithoutMemory
    /\ now = 0
    /\ os_sample = [m \in MetricNames |-> ThresholdPercent(m) * 100 - 4]
    /\ pc = [p \in Polls |-> "idle"]
    /\ start_time = [p \in Polls |-> 0]
    /\ component_tasks = [p \in Polls |-> EmptyMap]
    /\ metric_tasks = [p \in Polls |-> EmptyMap]
    /\ system_metrics = [p \in Polls |-> EmptyMap]
    /\ snapshot = [p \in Polls |-> None]

\* The two callers are interchangeable: when both are idle, caller 1 is the
\* one that polls.
NextCaller(p) == p = 1 \/ pc[1] # "idle"

NextRace ==
    \/ \E p \in Polls : NextCaller(p) /\ PollStart(p)
    \/ \E p \in Polls, metric \in MetricNames :
           StartedInCreationOrder(p, metric) /\ MetricStart(p, metric)
    \/ \E p \in Polls, metric \in MetricNames :
           MetricSample(p, metric, Reading(metric, os_sample[metric]))
    \/ \E p \in Polls, metric \in MetricNames :
           AllStarted(p) /\ MetricFinish(p, metric)
    \/ \E p \in Polls : PollFinish(p)
    \/ \E p \in Polls : PollReturn(p)
    \/ \E d \in TickSteps : NoMetricPending /\ Tick(d)
    \/ \E v \in SampleValues("memory") : AboutToSample("memory") /\ SampleChange("memory", v)

SpecRace == InitRace /\ [][NextRace]_vars

\* A TemplateGenerator built with any list, its accessors called in any order,
\* any number of times, while the caller may change the list it passed.
InitGen ==
    /\ CliIdle
    /\ HealthInit
    /\ LifeInit /\ WorkerIdle
    /\ template_gen \in {TemplateGenerator(n, c) : n \in ProjectNames, c \in ComponentLists}
    /\ last_call = None

NextGen ==
    \/ \E op \in Accessors : CallAccessor(op)
    \/ \E name \in GenNames : ComponentsAppend(name)
    \/ ComponentsPop

SpecGen == InitGen /\ [][NextGen]_vars

(***************************************************************************)
(* The application lifespan: app/core/lifecycle.py, the service modules    *)
(* that register with it, and lifespan in app/integrations/main.py.        *)
(***************************************************************************)
\* The service modules discover_and_import_services may find.
Services == {"startup_demo", "service_b", "service_c"}

\* The tasks a service module registers, as startup_demo does.
StartupTaskOf(service) == "start:" \o service
ShutdownTaskOf(service) == "shutdown:" \o service

LifeEvent(event, task) == [event |-> event, task |-> task]

\* reversed(SHUTDOWN_TASKS), main.py line 42.
ShutdownOrder(tasks) == [i \in 1..Len(tasks) |-> tasks[Len(tasks) + 1 - i]]

\* importlib.import_module of a service module: its top-level code appends
\* its tasks to the registries (startup_demo.py lines 27-28).  A module is
\* imported once.
ImportService(service) ==
    /\ life_pc = "import"
    /\ StartupTaskOf(service) \notin Range(STARTUP_TASKS)
    /\ STARTUP_TASKS' = Append(STARTUP_TASKS, StartupTaskOf(service))
    /\ SHUTDOWN_TASKS' = Append(SHUTDOWN_TASKS, ShutdownTaskOf(service))
    /\ UNCHANGED <<life_pc, life_i, life_awaiting, life_log>>
    /\ UNCHANGED <<cli_vars, health_vars, gen_vars, worker_vars>>

\* lifespan, lines 30-32: the server enters the context manager.
LifespanEnter ==
    /\ life_pc = "import"
    /\ life_pc' = "startup"
    /\ life_i' = 1
    /\ UNCHANGED <<STARTUP_TASKS, SHUTDOWN_TASKS, life_awaiting, life_log>>
    /\ UNCHANGED <<cli_vars, health_vars, gen_vars, worker_vars>>

\* `await task()` of either loop: the task is called and lifespan suspends.
TaskBegin(stage, tasks) ==
    /\ life_pc = stage
    /\ ~life_awaiting
    /\ life_i <= Len(tasks)
    /\ life_awaiting' = TRUE
    /\ life_log' = Append(life_log, LifeEvent("begin", tasks[life_i]))
    /\ UNCHANGED <<STARTUP_TASKS, SHUTDOWN_TASKS, life_pc, life_i>>
    /\ UNCHANGED <<cli_vars, health_vars, gen_vars, worker_vars>>

\* The awaited task has finished; the loop moves on.
TaskEnd(stage, tasks) ==
    /\ life_pc = stage
    /\ life_awaiting
    /\ life_awaiting' = FALSE
    /\ life_log' = Append(life_log, LifeEvent("end", tasks[life_i]))
    /\ life_i' = life_i + 1
    /\ UNCHANGED <<STARTUP_TASKS, SHUTDOWN_TASKS, life_pc>>
    /\ UNCHANGED <<cli_vars, health_vars, gen_vars, worker_vars>>

\* Lines 33-34.
StartupTaskBegin == TaskBegin("startup", STARTUP_TASKS)
StartupTaskEnd == TaskEnd("startup", STARTUP_TASKS)

\* Line 37: the startup loop is over, lifespan yields and the application
\* serves.
LifespanYield ==
    /\ life_pc = "startup"
    /\ ~life_awaiting
    /\ life_i > Len(STARTUP_TASKS)
    /\ life_pc' = "serving"
    /\ life_log' = Append(life_log, LifeEvent("serving", ""))
    /\ UNCHANGED <<STARTUP_TASKS, SHUTDOWN_TASKS, life_i, life_awaiting>>
    /\ UNCHANGED <<cli_vars, health_vars, gen_vars, worker_vars>>

\* The server stops and resumes lifespan after the yield (line 40).
LifespanResume ==
    /\ life_pc = "serving"
    /\ life_pc' = "shutdown"
    /\ life_i' = 1
    /\ life_log' = Append(life_log, LifeEvent("stopped", ""))
    /\ UNCHANGED <<STARTUP_TASKS, SHUTDOWN_TASKS, life_awaiting>>
    /\ UNCHANGED <<cli_vars, health_vars, gen_vars, worker_vars>>

\* Lines 42-43.
ShutdownTaskBegin == TaskBegin("shutdown", ShutdownOrder(SHUTDOWN_TASKS))
ShutdownTaskEnd == TaskEnd("shutdown", ShutdownOrder(SHUTDOWN_TASKS))

\* Lines 44-45: the shutdown loop is over.
LifespanExit ==
    /\ life_pc = "shutdown"
    /\ ~life_awaiting
    /\ life_i > Len(SHUTDOWN_TASKS)
    /\ life_pc' = "stopped"
    /\ UNCHANGED <<STARTUP_TASKS, SHUTDOWN_TASKS, life_i, life_awaiting, life_log>>
    /\ UNCHANGED <<cli_vars, health_vars, gen_vars, worker_vars>>

\* The service modules are imported in some order, then the application
\* starts, serves and stops.
InitLife == CliIdle /\ HealthInit /\ GenIdle /\ LifeInit /\ WorkerIdle

NextLife ==
    \/ \E service \in Services : ImportService(service)
    \/ LifespanEnter
    \/ StartupTaskBegin
    \/ StartupTaskEnd
    \/ LifespanYield
    \/ LifespanResume
    \/ ShutdownTaskBegin
    \/ ShutdownTaskEnd
    \/ LifespanExit

SpecLife == InitLife /\ [][NextLife]_vars

\* The worker probe is called again and again over some configuration of
\* queues while Redis changes its answers.
InitWorker ==
    /\ CliIdle /\ HealthInit /\ GenIdle /\ LifeInit
    /\ worker_queues \in SUBSET QueueTypes
    /\ redis_obs = [q \in worker_queues |-> WorkerOffline]
    /\ worker_pc = "idle"
    /\ worker_answers = EmptyMap
    /\ worker_queue_length = 0
    /\ worker_status = None

NextWorker ==
    \/ \E queue_type \in QueueTypes, state \in RedisStates :
           RedisChange(queue_type, state)
    \/ check_worker_health
    \/ \E outcome \in CallOutcomes : LlenReturns(outcome)
    \/ \E outcome \in CallOutcomes : GetReturns(outcome)
    \/ \E outcome \in CallOutcomes : CloseReturns(outcome)

SpecWorker == InitWorker /\ [][NextWorker]_vars

(***************************************************************************)
(* Properties of aegis init and the dependency resolver (Spec).            *)
(***************************************************************************)
\* The names of a --components value that the registry lacks, one per
\* occurrence, read off the raw tokens.
UnknownTokens(value) ==
    {i \in 1..Len(value) : strip(value[i]) # "" /\ strip(value[i]) \notin Registry}

RequestedNames(value) ==
    {strip(value[i]) : i \in 1..Len(value)} \ {""}

ClosedUnderRequires(S) ==
    \A m \in S : m \in Registry /\ COMPONENTS[m].requires \subseteq S

\* C1: for every request that validation accepts, the resolved set handed on
\* by the option callback contains every requested name and is closed under
\* requires; requesting worker alone resolves to {worker, redis}.
C1_ResolveSupersetClosed ==
    components # None =>
        LET S == RequestedNames(argv.value)
        IN /\ S \subseteq components[1]
           /\ ClosedUnderRequires(components[1])
           /\ (S = {"worker"} => components[1] = {"worker", "redis"})

C1_Witness ==
    /\ cli_pc = "body"
    /\ argv.value = <<"worker">>
    /\ components = Some({"worker", "redis"})

\* C8: the auto-added dependencies reported for a valid request are exactly
\* the resolved set minus the requested names, and there are none when the
\* request is already closed under requires.
C8_MissingIsResolvedMinusRequested ==
    (cli_pc = "body" /\ components # None) =>
        LET S == RequestedNames(argv.value)
        IN /\ auto_added = components[1] \ S
           /\ (ClosedUnderRequires(S) => auto_added = {})
           /\ (S = {"worker"} => auto_added = {"redis"})

C8_Witness ==
    /\ cli_pc = "body"
    /\ selected = <<"redis", "worker">>
    /\ resolved = {"redis", "worker"}
    /\ auto_added = {}

\* C9: when a --components value names a component the registry lacks, init
\* ends with exit code 1 with one error reported per unknown name, and neither
\* the dependency resolution nor cookiecutter is invoked.
C9_UnknownNameAborts ==
    (cli_pc # "parse" /\ argv.value # None /\ UnknownTokens(argv.value) # {}) =>
        /\ cli_pc = "exited"
        /\ exit_code = 1
        /\ \A i \in UnknownTokens(argv.value) :
               \E k \in 1..Len(errors) : errors[k].name = strip(argv.value[i])
        /\ "resolve_dependencies" \notin Range(calls)
        /\ "cookiecutter" \notin Range(calls)
        /\ cookiecutter_args = None

C9_Witness ==
    /\ cli_pc = "exited"
    /\ argv.value = <<" scheduler", "bogus", "redis">>
    /\ exit_code = 1
    /\ Len(errors) = 1
    /\ calls = <<"validate_components">>

\* C10: validate_components returns exactly one error per name of the input
\* that the registry lacks (a name listed twice is reported twice) and none
\* for any other name, so that the result is empty exactly when every name is
\* known; the call raises nothing and leaves the registry as it was.
C10_OneErrorPerUnknownName ==
    (cli_pc # "parse" /\ argv.value # None /\ argv.value # <<"">>) =>
        LET names == ParseComponents(argv.value)
            call == ValidateCall(names)
            unknown_at == {i \in 1..Len(names) : names[i] \notin Registry}
        IN /\ errors = call.returned
           /\ Len(errors) = Cardinality(unknown_at)
           /\ \A i \in unknown_at :
                  Cardinality({k \in 1..Len(errors) : errors[k].name = names[i]})
                      = Cardinality({j \in 1..Len(names) : names[j] = names[i]})
           /\ \A k \in 1..Len(errors) :
                  \E i \in unknown_at : errors[k].name = names[i]
           /\ (errors = <<>> <=> \A i \in 1..Len(names) : names[i] \in Registry)
           /\ call.raised = None
           /\ call.registry = COMPONENTS

\* A request with two unknown names and a known one was validated: two
\* errors, the command line is refused.
C10_Witness ==
    /\ cli_pc = "exited"
    /\ selected = <<"bogus", "worker", "invalid">>
    /\ Len(errors) = 2
    /\ {errors[k].name : k \in 1..Len(errors)} = {"bogus", "invalid"}
    /\ exit_code = 1

\* The lists that hold the members of a list in another order.
Reorderings(s) ==
    {[i \in 1..Len(s) |-> s[f[i]]] : f \in Orderings(1..Len(s))}

\* C11: resolving is idempotent: resolving the resolved set of a valid request
\* gives that set again, and requesting, on top of the request, a component
\* that a requested one requires does not change the resolved set.
C11_ResolveIdempotent ==
    (cli_pc = "body" /\ components # None) =>
        LET S == Range(selected)
        IN /\ resolve_dependencies(resolve_dependencies(S)) = resolve_dependencies(S)
           /\ resolve_dependencies(components[1]) = components[1]
           /\ \A c \in RequiresOf(S) :
                  /\ resolve_dependencies(S \cup {c}) = resolve_dependencies(S)
                  /\ Range(ResolveScan(Append(selected, c))) = components[1]

C11_Witness ==
    /\ cli_pc = "body"
    /\ selected = <<"worker">>
    /\ auto_added = {"redis"}
    /\ resolve_dependencies(Range(selected) \cup auto_added) = resolved

\* C12: resolving is order-insensitive: every permutation of a valid list of
\* requested names resolves to the set the callback resolved.
C12_ResolveOrderInsensitive ==
    (cli_pc = "body" /\ components # None) =>
        \A q \in Reorderings(selected) :
            /\ Range(ResolveScan(q)) = components[1]
            /\ Range(ResolveScan(q)) = resolve_dependencies(Range(selected))

C12_Witness ==
    /\ cli_pc = "body"
    /\ selected = <<"scheduler", "worker">>
    /\ resolved = {"scheduler", "worker", "redis"}
    /\ ResolveScan(<<"worker", "scheduler">>) # ResolveScan(selected)

\* C13: the recommendations shown for a valid request are the recommends of
\* the resolved components minus the resolved components, so none of them is
\* already resolved; and they are not applied: the list the callback returns
\* is the resolved set, each member requested or required by a member.
C13_RecommendationsNotApplied ==
    (cli_pc = "body" /\ components # None) =>
        /\ recommendations
             = UNION {COMPONENTS[c].recommends : c \in resolved} \ resolved
        /\ recommendations \cap resolved = {}
        /\ components[1] = resolve_dependencies(Range(selected))
        /\ components[1] \subseteq Range(selected) \cup RequiresOf(components[1])
        /\ recommendations \cap components[1] = {}

C13_Witness ==
    /\ cli_pc = "body"
    /\ selected = <<"scheduler">>
    /\ recommendations = {"redis"}
    /\ components = Some({"scheduler"})

\* C19: when the project directory exists and --force is not given, init
\* ends with exit code 1 and cookiecutter is not invoked; cookiecutter is
\* invoked only when the directory is absent or --force is given, and only
\* after the user confirmed or --yes was given; a declined confirmation ends
\* with exit code 0 and cookiecutter is not invoked.
C19_NoGenerationOnConflictOrDecline ==
    LET rendered == "cookiecutter" \in Range(calls) \/ cookiecutter_args # None
        body_done == cli_pc = "exited" /\ errors = <<>>
    IN /\ (body_done /\ argv.dir_exists /\ ~argv.force) =>
              /\ exit_code = 1
              /\ ~rendered
              /\ "get_template_files" \notin Range(calls)
       /\ rendered =>
              /\ ~argv.dir_exists \/ argv.force
              /\ argv.yes \/ "confirm:yes" \in Range(calls)
              /\ "confirm:no" \notin Range(calls)
              /\ cookiecutter_args[1].overwrite_if_exists = argv.force
       /\ "confirm:no" \in Range(calls) =>
              /\ body_done
              /\ exit_code = 0
              /\ ~rendered
       /\ (body_done /\ ~rendered /\ exit_code = 0) => "confirm:no" \in Range(calls)

C19_Witness ==
    /\ cli_pc = "exited"
    /\ argv.dir_exists /\ ~argv.force /\ argv.yes
    /\ components = Some({"worker", "redis"})
    /\ exit_code = 1
    /\ "cookiecutter" \notin Range(calls)

(***************************************************************************)
(* Properties of the template generator (SpecGen).                         *)
(***************************************************************************)
\* The generator's specs are those of the list it holds now.
Fresh(self) == self.component_specs = component_specs(self.components)

NoDuplicates(list) == \A i, j \in 1..Len(list) : list[i] = list[j] => i = j

\* The place of the first contribution of x to a field: the position of the
\* contributing component in the list, then the position within its field.
FirstSlot(comps, field, x) ==
    LET slots == UNION {{<<k, m>> : m \in {n \in 1..Len(COMPONENTS[comps[k]][field]) :
                                              COMPONENTS[comps[k]][field][n] = x}} :
                        k \in {i \in 1..Len(comps) : comps[i] \in Registry}}
    IN CHOOSE a \in slots :
           \A b \in slots : a[1] < b[1] \/ (a[1] = b[1] /\ a[2] <= b[2])

Before(a, b) == a[1] < b[1] \/ (a[1] = b[1] /\ a[2] < b[2])

\* What the selected components contribute to a field.
Contributed(comps, field) ==
    UNION {Range(COMPONENTS[c][field]) : c \in Range(comps) \cap Registry}

\* A list holds the contributions to a field once each, in first-seen order.
FirstSeenOrder(list, comps, field) ==
    /\ NoDuplicates(list)
    /\ Range(list) = Contributed(comps, field)
    /\ \A i, j \in 1..Len(list) :
           i < j => Before(FirstSlot(comps, field, list[i]),
                           FirstSlot(comps, field, list[j]))

\* The last operation was this accessor, on a generator as it was built.
Called(op) ==
    /\ last_call # None
    /\ last_call[1].op = op
    /\ Fresh(template_gen)

\* C14: the docker services of a generator, asked for directly or within
\* the context, hold no service twice, hold exactly the services of the
\* selected components, and list each at its first contributor's place.
C14_DockerServicesFirstSeen ==
    /\ Called("_get_docker_services") =>
           FirstSeenOrder(last_call[1].result, template_gen.components,
                          "docker_services")
    /\ Called("get_template_context") =>
           FirstSeenOrder(last_call[1].result.docker_services,
                          template_gen.components, "docker_services")

C14_Witness ==
    /\ Called("_get_docker_services")
    /\ template_gen.components = <<"redis", "worker">>
    /\ last_call[1].result = <<"redis", "worker">>

\* C15: the package dependencies of a generator, asked for directly or
\* within the context, are in ascending order without repetition, are exactly
\* the dependencies of the selected components, and are the same list for
\* every ordering of the selected list.
C15_PyprojectDepsSorted ==
    \A op \in {"_get_pyproject_deps", "get_template_context"} :
        Called(op) =>
            LET deps == IF op = "_get_pyproject_deps"
                        THEN last_call[1].result
                        ELSE last_call[1].result.pyproject_dependencies
                comps == template_gen.components
            IN /\ \A i, j \in 1..Len(deps) : i < j => StrRank(deps[i]) < StrRank(deps[j])
               /\ Range(deps) = Contributed(comps, "pyproject_deps")
               /\ \A q \in Reorderings(comps) :
                      _get_pyproject_deps(TemplateGenerator(template_gen.project_name, q))
                          = deps

C15_Witness ==
    /\ Called("_get_pyproject_deps")
    /\ template_gen.components = <<"redis", "worker", "scheduler">>
    /\ last_call[1].result = <<"apscheduler", "arq", "redis">>

\* C16: the template files of a generator hold no file twice and list the
\* files of the selected components in first-seen order; the result of this
\* accessor and of the dependency accessor is that of a newly built
\* generator whatever was called before, and a call of an accessor leaves
\* the generator as it was.
AccessorResultsAsBuilt ==
    /\ Called("get_template_files") =>
           /\ FirstSeenOrder(last_call[1].result, template_gen.components,
                             "template_files")
           /\ last_call[1].result
                = get_template_files(TemplateGenerator(template_gen.project_name,
                                                       template_gen.components))
    /\ Called("_get_pyproject_deps") =>
           last_call[1].result
             = _get_pyproject_deps(TemplateGenerator(template_gen.project_name,
                                                     template_gen.components))

AccessorLeavesGenerator ==
    (last_call' # None /\ last_call'[1].op \in Accessors) =>
        template_gen' = template_gen

\* C16: the accessors' results are those of a newly built generator, and a
\* call of an accessor leaves the generator as it was.
C16_TemplateFilesIndependent ==
    []AccessorResultsAsBuilt /\ [][AccessorLeavesGenerator]_vars

C16_Witness ==
    /\ Called("get_template_files")
    /\ last_call[1].prev_op = "_get_pyproject_deps"
    /\ template_gen.components = <<"scheduler", "worker", "scheduler">>
    /\ last_call[1].result = <<"app/components/scheduler",
                               "app/entrypoints/scheduler.py",
                               "app/components/worker">>

\* The context of the last call of get_template_context, on whatever list
\* the generator holds.
ContextReturned ==
    last_call # None /\ last_call[1].op = "get_template_context"

\* C17: every context has the three flags include_redis, include_worker and
\* include_scheduler, selected or not, each "yes" exactly when the name is
\* in the selected list and "no" otherwise.
C17_OneFlagPerOptionalComponent ==
    ContextReturned =>
        LET ctx == last_call[1].result
            sel == Range(template_gen.components)
        IN /\ {"include_redis", "include_worker", "include_scheduler"}
                 \subseteq DOMAIN ctx
           /\ \A n \in Registry \ CORE_COMPONENTS :
                  /\ ("include_" \o n) \in DOMAIN ctx
                  /\ ctx["include_" \o n] = "yes" <=> n \in sel
                  /\ ctx["include_" \o n] \in {"yes", "no"}
           /\ ctx.include_redis = (IF "redis" \in sel THEN "yes" ELSE "no")
           /\ ctx.include_worker = (IF "worker" \in sel THEN "yes" ELSE "no")
           /\ ctx.include_scheduler = (IF "scheduler" \in sel THEN "yes" ELSE "no")

C17_Witness ==
    /\ ContextReturned
    /\ template_gen.components = <<"worker">>
    /\ last_call[1].result.include_worker = "yes"
    /\ last_call[1].result.include_redis = "no"
    /\ last_call[1].result.include_scheduler = "no"

\* C18: in every context the derived flags agree with the flags of the same
\* context: has_background_infrastructure exactly when include_worker or
\* include_scheduler is "yes", needs_redis exactly when include_redis is
\* "yes"; also when the list changed since the generator was built.
C18_DerivedFlagsAgree ==
    ContextReturned =>
        LET ctx == last_call[1].result
        IN /\ ctx.has_background_infrastructure
                 = (ctx.include_worker = "yes" \/ ctx.include_scheduler = "yes")
           /\ ctx.needs_redis = (ctx.include_redis = "yes")
           /\ ctx.selected_components = template_gen.components

C18_Witness ==
    /\ ContextReturned
    /\ last_call[1].prev_op = "pop"
    /\ ~Fresh(template_gen)
    /\ DOMAIN template_gen.component_specs = {"worker"}
    /\ template_gen.components = <<>>
    /\ last_call[1].result.has_background_infrastructure = FALSE

(***************************************************************************)
(* Properties of the health aggregation.                                   *)
(***************************************************************************)
\* Every status of a tree, at every depth.
RECURSIVE Nodes(_)
Nodes(status) ==
    {status} \cup UNION {Nodes(status.sub_components[k]) : k \in DOMAIN status.sub_components}

SnapshotNodes(system_status) ==
    UNION {Nodes(system_status.components[k]) : k \in DOMAIN system_status.components}

\* The results of the registered probes in a snapshot: the children of the root.
RootChildren(system_status) == system_status.components["aegis"].sub_components

Returned(p) == snapshot[p] # None

\* The status the poll holds for the probe registered under n once its task
\* was awaited.
Recorded(p, n) == AwaitedStatus(n, component_tasks[p][n])

\* C2: overall_healthy is true exactly when every status at every depth of
\* the snapshot is healthy.
C2_OverallIffEveryDepthHealthy ==
    \A p \in Polls : Returned(p) =>
        (snapshot[p][1].overall_healthy
            <=> \A st \in SnapshotNodes(snapshot[p][1]) : st.healthy)

\* C3: the error of a probe that raised does not reach the caller of the poll:
\* no poll ends with an exception, and in the snapshot a probe that raised is
\* an unhealthy status with a message, which carries the text of the error
\* when the error has one, and the snapshot is not overall healthy.
C3_RaisingProbeContained ==
    \A p \in Polls :
        /\ pc[p] # "raised"
        /\ Returned(p) =>
            \A n \in DOMAIN component_tasks[p] :
                component_tasks[p][n].returned[1].kind = "raise" =>
                    /\ n \in DOMAIN RootChildren(snapshot[p][1])
                    /\ RootChildren(snapshot[p][1])[n].healthy = FALSE
                    /\ RootChildren(snapshot[p][1])[n].message # ""
                    /\ component_tasks[p][n].returned[1].error.text # None =>
                           RootChildren(snapshot[p][1])[n].message
                               = "Error: " \o component_tasks[p][n].returned[1].error.text[1]
                    /\ snapshot[p][1].overall_healthy = FALSE

\* C4: the snapshot has a result for every probe of the poll, and a probe
\* that returned a status is in it with the healthy flag and the message it
\* returned, whatever the other probes did.
C4_FailureIsolation ==
    \A p \in Polls : Returned(p) =>
        \A n \in DOMAIN component_tasks[p] :
            /\ n \in DOMAIN RootChildren(snapshot[p][1])
            /\ component_tasks[p][n].returned[1].kind = "status" =>
                  /\ RootChildren(snapshot[p][1])[n].healthy
                         = component_tasks[p][n].returned[1].status.healthy
                  /\ RootChildren(snapshot[p][1])[n].message
                         = component_tasks[p][n].returned[1].status.message

C4_Witness ==
    /\ Returned(1)
    /\ DOMAIN component_tasks[1] = {"backend", "custom_test"}
    /\ component_tasks[1]["backend"].returned[1].kind = "raise"
    /\ component_tasks[1]["custom_test"].returned[1].kind = "status"
    /\ RootChildren(snapshot[1][1])["custom_test"].healthy

\* Call p looks the metrics up in this step (line 75, lines 213-231).
LooksUp(p) == pc[p] \in {"idle", "probes"} /\ pc'[p] \in {"metrics", "done"}

\* At the look-up a metric whose entry is younger than the cache duration at
\* the poll's time gets no task, and the call holds the entry's status as it
\* is; a metric with no entry or an older one gets a task.
FreshEntryDecides ==
    \A p \in Polls : LooksUp(p) =>
        \A m \in MetricNames :
            IF /\ m \in DOMAIN metrics_cache
               /\ start_time'[p] - metrics_cache[m].time < SYSTEM_METRICS_CACHE_SECONDS
            THEN /\ m \notin DOMAIN metric_tasks'[p]
                 /\ system_metrics'[p][m] = metrics_cache[m].status
            ELSE /\ m \in DOMAIN metric_tasks'[p]
                 /\ metric_tasks'[p][m].state = "PENDING"

\* From the look-up to its end a call creates no further task, and the
\* status it took from the cache stays as it was taken, whatever is written to
\* the cache meanwhile.
CachedStatusKept ==
    \A p \in Polls :
        (pc[p] \in {"metrics", "done", "raised"} /\ pc'[p] # "idle") =>
            /\ DOMAIN metric_tasks'[p] = DOMAIN metric_tasks[p]
            /\ \A m \in DOMAIN system_metrics[p] \ DOMAIN metric_tasks[p] :
                   /\ m \in DOMAIN system_metrics'[p]
                   /\ system_metrics'[p][m] = system_metrics[p][m]

\* The snapshot carries, for a metric that was not probed, the status taken
\* from the cache.
SnapshotCarriesCached ==
    \A p \in Polls : Returned(p) =>
        \A m \in MetricNames \ DOMAIN metric_tasks[p] :
            RootChildren(snapshot[p][1])["backend"].sub_components[m]
                = system_metrics[p][m]

\* C5: a metric whose cache entry is younger than the cache duration at the
\* poll's time is not probed and the snapshot carries the cached status as it
\* is; a metric with no entry or an older one is probed.  The entry is the one
\* the call finds at its look-up: tasks left behind by an earlier call may
\* write to the cache while the call awaits its probes.
C5_FreshEntryReused ==
    [][FreshEntryDecides /\ CachedStatusKept]_vars /\ []SnapshotCarriesCached

\* A poll answered from the cache although the memory measurement has moved
\* to the other side of the threshold since.
C5_Witness ==
    /\ Returned(1)
    /\ DOMAIN metric_tasks[1] = {}
    /\ start_time[1] - metrics_cache["memory"].time = SYSTEM_METRICS_CACHE_SECONDS - 1
    /\ RootChildren(snapshot[1][1])["backend"].sub_components["memory"].healthy
    /\ ~MetricHealthy("memory", PsutilPercent(os_sample["memory"]))

\* C6: the three metrics are the sub_components of the backend node; with no
\* probe registered as backend the node is virtual and healthy exactly when
\* the three metrics are.
C6_MetricsUnderBackend ==
    \A p \in Polls : Returned(p) =>
        LET backend == RootChildren(snapshot[p][1])["backend"]
        IN /\ DOMAIN backend.sub_components = MetricNames
           /\ \A m \in MetricNames : backend.sub_components[m].name = m
           /\ backend.sub_components = system_metrics[p]
           /\ "backend" \notin DOMAIN component_tasks[p] =>
                 /\ backend.name = "backend"
                 /\ backend.metadata = [type |-> "system_container", virtual |-> TRUE]
                 /\ backend.healthy <=>
                        \A m \in MetricNames : backend.sub_components[m].healthy

C6_Witness ==
    /\ Returned(1)
    /\ "backend" \notin DOMAIN component_tasks[1]
    /\ ~RootChildren(snapshot[1][1])["backend"].healthy
    /\ RootChildren(snapshot[1][1])["backend"].sub_components["memory"].healthy
    /\ ~RootChildren(snapshot[1][1])["backend"].sub_components["disk"].healthy

\* C7: a probe registered under a name is a key of the components mapping of
\* the next snapshot, with the probe's name and healthy value.
C7_RegisteredNameIsComponentKey ==
    \A p \in Polls : Returned(p) =>
        \A n \in DOMAIN component_tasks[p] :
            /\ n \in DOMAIN snapshot[p][1].components
            /\ component_tasks[p][n].returned[1].kind = "status" =>
                  /\ snapshot[p][1].components[n].name
                         = component_tasks[p][n].returned[1].status.name
                  /\ snapshot[p][1].components[n].healthy
                         = component_tasks[p][n].returned[1].status.healthy

\* C20: the status of every registered probe has a response time, in a
\* completed task and in the snapshot alike, whether the probe returned or
\* raised; it is the time from the start of the probe's task to the probe's
\* completion, in milliseconds.
ProbeStatusesTimed ==
    \A p \in Polls : \A n \in DOMAIN component_tasks[p] :
        /\ component_tasks[p][n].result # None =>
               /\ component_tasks[p][n].result[1].response_time_ms # None
               /\ component_tasks[p][n].result[1].response_time_ms[1] >= 0
               /\ component_tasks[p][n].result[1].response_time_ms[1]
                    <= (now - component_tasks[p][n].started) * 1000
        /\ Returned(p) =>
               /\ n \in DOMAIN RootChildren(snapshot[p][1])
               /\ RootChildren(snapshot[p][1])[n].response_time_ms # None
               /\ component_tasks[p][n].result # None =>
                      RootChildren(snapshot[p][1])[n].response_time_ms
                          = component_tasks[p][n].result[1].response_time_ms

ElapsedTakenAtCompletion ==
    \A p \in Polls : \A n \in DOMAIN component_tasks[p] :
        (/\ n \in DOMAIN component_tasks'[p]
         /\ component_tasks[p][n].state = "RUNNING"
         /\ component_tasks'[p][n].result # None) =>
            component_tasks'[p][n].result[1].response_time_ms
                = Some((now - component_tasks[p][n].started) * 1000)

\* C20: every status recorded for a registered probe carries the time that
\* elapsed from the start of its task to the probe's completion.
C20_ResponseTimeAlwaysSet ==
    []ProbeStatusesTimed /\ [][ElapsedTakenAtCompletion]_vars

(***************************************************************************)
(* Properties of the metric cache under overlapping polls (SpecRace).      *)
(***************************************************************************)
\* A metric has no entry, or one as old as the cache duration or older.
Stale(cache, m, t) ==
    m \notin DOMAIN cache \/ t - cache[m].time >= SYSTEM_METRICS_CACHE_SECONDS

\* The probe of metric m in poll p completes in this step.
MetricCompletes(p, m) ==
    /\ m \in DOMAIN metric_tasks[p]
    /\ metric_tasks[p][m].state = "RUNNING"
    /\ m \in DOMAIN metric_tasks'[p]
    /\ metric_tasks'[p][m].state = "COMPLETED"

\* The entry of metric m is written in this step.
EntryWritten(m) ==
    /\ m \in DOMAIN metrics_cache'
    /\ m \in DOMAIN metrics_cache => metrics_cache'[m] # metrics_cache[m]

\* A poll starting in this step launches a probe for exactly the metrics whose
\* entry is missing or expired.
ProbesOnlyStaleMetrics ==
    \A p \in Polls :
        (pc[p] = "idle" /\ pc'[p] # "idle") =>
            /\ DOMAIN metric_tasks'[p] = {m \in MetricNames : Stale(metrics_cache, m, now)}
            /\ \A m \in MetricNames \ DOMAIN metric_tasks'[p] :
                   system_metrics'[p][m] = metrics_cache[m].status

\* An entry changes only in a step in which a probe of that metric completes.
EntryWrittenOnlyByOwnProbe ==
    \A m \in MetricNames :
        EntryWritten(m) => \E p \in Polls : MetricCompletes(p, m)

\* C21: the cache entries are independent: a poll probes exactly the metrics
\* whose entry is missing or expired, and an entry is left as it is unless a
\* probe of its own metric completes.
C21_CacheEntriesIndependent ==
    [][ProbesOnlyStaleMetrics /\ EntryWrittenOnlyByOwnProbe]_vars

\* A poll that found no entry for memory and the entry of the disk fresh has
\* probed memory only: the disk's entry is the one it found.
C21_Witness ==
    /\ Returned(1)
    /\ DOMAIN metric_tasks[1] = {"memory"}
    /\ metrics_cache["memory"].time = start_time[1]
    /\ metrics_cache["disk"].time < start_time[1]
    /\ metrics_cache["disk"] = CacheWithoutMemory["disk"]

(***************************************************************************)
(* Properties of the probe registry.                                       *)
(***************************************************************************)
\* The registry holds, under the name registered last, the probe registered
\* last.
LastRegisteredHeld ==
    last_registered # None =>
        /\ last_registered[1].name \in DOMAIN health_checks
        /\ health_checks[last_registered[1].name] = last_registered[1].check_fn

\* A change of the registry is the insertion or replacement of the probe of
\* the one name just registered.
RegisterTouchesOneName ==
    health_checks' # health_checks =>
        /\ last_registered' # None
        /\ DOMAIN health_checks'
             = DOMAIN health_checks \cup {last_registered'[1].name}
        /\ \A n \in DOMAIN health_checks \ {last_registered'[1].name} :
               health_checks'[n] = health_checks[n]

\* A poll that starts in this step has one task per registered name, around
\* the probe the registry holds for the name.
PollTakesRegisteredProbes ==
    \A p \in Polls :
        (pc[p] = "idle" /\ pc'[p] # "idle") =>
            /\ DOMAIN component_tasks'[p] = DOMAIN health_checks
            /\ \A n \in DOMAIN health_checks :
                   component_tasks'[p][n].check_fn = health_checks[n]

\* C22: the registry holds one probe per name, the one registered last; a
\* registration leaves the probes of the other names as they are; a poll
\* runs, for each name, the probe the registry holds when it starts.
C22_RegistryOverwrite ==
    []LastRegisteredHeld
        /\ [][RegisterTouchesOneName /\ PollTakesRegisteredProbes]_vars

\* custom_test was registered with check_a, then again with check_b, while
\* backend keeps its probe.
C22_Witness ==
    /\ pc[1] = "probes"
    /\ "custom_test" \in DOMAIN component_tasks[1]
    /\ component_tasks[1]["custom_test"].check_fn = "check_a"
    /\ last_registered = Some([name |-> "custom_test", check_fn |-> "check_b"])
    /\ health_checks = [n \in {"backend", "custom_test"} |->
                           IF n = "backend" THEN "check_a" ELSE "check_b"]


(***************************************************************************)
(* Properties of the snapshot against the order of completion (SpecTiming). *)
(***************************************************************************)
RECURSIVE Untimed(_)
\* A status without its elapsed times, all the way down.
Untimed(status) ==
    [status EXCEPT !.response_time_ms = None,
                   !.sub_components = [k \in DOMAIN @ |-> Untimed(@[k])]]

UntimedSnapshot(system_status) ==
    [system_status EXCEPT !.components = [k \in DOMAIN @ |-> Untimed(@[k])]]

\* The results the probes' outcomes alone determine: neither the start nor
\* the completion time of a task enters.
OutcomeResults(tasks) ==
    [n \in DOMAIN tasks |->
        AwaitedStatus(n, TaskDone(NewTask(tasks[n].check_fn), n, tasks[n].returned[1], 0))]

\* C23: the snapshot of a poll does not depend on the order in which its
\* probes complete: apart from the elapsed times, the tree (its shape, the
\* names, the healthy flags, the messages) and overall_healthy are the ones
\* the probes' outcomes determine, whichever probe finished first.
C23_SnapshotIndependentOfCompletionOrder ==
    Returned(1) =>
        UntimedSnapshot(snapshot[1][1]) =
            UntimedSnapshot(BuildSystemStatus(OutcomeResults(component_tasks[1]),
                                              system_metrics[1], start_time[1]))

\* The probe registered under "custom_test" completed at once, the backend
\* probe later (and failed); the snapshot is there.
C23_Witness ==
    /\ Returned(1)
    /\ DOMAIN component_tasks[1] = HealthNames
    /\ \A n \in HealthNames : component_tasks[1][n].result # None
    /\ FinishedAt(component_tasks[1]["custom_test"]) <
           FinishedAt(component_tasks[1]["backend"])
    /\ component_tasks[1]["backend"].returned[1].kind = "raise"
    /\ ~snapshot[1][1].overall_healthy


(***************************************************************************)
(* Integrity of the metric cache under overlapping polls (SpecRace).       *)
(***************************************************************************)
\* status is what one complete run of metric m's probe produces: the status
\* of one measurement, with the elapsed time of the run.
CompleteRun(m, status) ==
    /\ status.response_time_ms # None
    /\ \E reading \in {Reading(m, v) : v \in SampleValues(m)}
                          \cup {ReadingFailed(e) : e \in PsutilErrors} :
           LET outcome == MetricCheck(m, reading)
           IN /\ RunnerRaises(outcome) = None
              /\ status = [_run_health_check(m, outcome, 0, 0)
                              EXCEPT !.response_time_ms = status.response_time_ms]

CacheEntriesComplete ==
    \A m \in DOMAIN metrics_cache :
        /\ m \in MetricNames
        /\ CompleteRun(m, metrics_cache[m].status)
        /\ metrics_cache[m].time \in 0..now

\* The metric nodes of the snapshot of poll p.
SnapshotMetrics(p) ==
    snapshot[p][1].components["aegis"].sub_components["backend"].sub_components

SnapshotMetricsComplete ==
    \A p \in Polls :
        Returned(p) =>
            /\ DOMAIN SnapshotMetrics(p) = MetricNames
            /\ \A m \in MetricNames : CompleteRun(m, SnapshotMetrics(p)[m])

\* An entry written in this step is the result of the run that completes in
\* it, with the timestamp of that run's poll.
EntryFromOneRun ==
    \A m \in MetricNames :
        EntryWritten(m) =>
            \E p \in Polls :
                /\ MetricCompletes(p, m)
                /\ metrics_cache'[m] = [status |-> metric_tasks'[p][m].result[1],
                                        time |-> start_time[p]]

\* Within one poll a completed probe is not run again.
ProbedOncePerPoll ==
    \A p \in Polls : \A m \in DOMAIN metric_tasks[p] :
        (metric_tasks[p][m].state = "COMPLETED" /\ pc'[p] # "idle") =>
            /\ m \in DOMAIN metric_tasks'[p]
            /\ metric_tasks'[p][m] = metric_tasks[p][m]

\* Apart from the repeated probing the cache is the one that polls running one
\* after the other leave: the entry of a metric is the result of the latest
\* of the polls that have probed it.
LatestResultKept ==
    \A p \in Polls : \A m \in DOMAIN metric_tasks[p] :
        metric_tasks[p][m].result # None =>
            /\ m \in DOMAIN metrics_cache
            /\ metrics_cache[m].time >= start_time[p]

\* Every entry and every snapshot holds whole results of single runs, and a
\* poll runs a probe once.
CacheIntegrity ==
    [](CacheEntriesComplete /\ SnapshotMetricsComplete)
        /\ [][EntryFromOneRun /\ ProbedOncePerPoll]_vars

\* C24: overlapping polls never corrupt the metric cache: every entry is the
\* (status, time) pair of one completed run of its own metric's probe, every
\* snapshot carries for each metric the status of one complete run, a metric
\* is probed at most once by each of the overlapping polls, and that repeated
\* probing is the only effect of the race: the cache ends up holding what the
\* latest poll produced, as it does when the polls do not overlap.
C24_OverlappingPollsKeepCacheIntact == CacheIntegrity /\ []LatestResultKept


(***************************************************************************)
(* The time kept with a cache entry (SpecCache).                           *)
(***************************************************************************)
\* C25: on a miss the fresh result is stored together with the current time,
\* the time at which it is cached, so that the age a later poll computes is
\* the time elapsed since the result was produced.
C25_EntryTimeIsTimeOfCaching ==
    [][\A m \in MetricNames :
           EntryWritten(m) => metrics_cache'[m].time = now]_vars


(***************************************************************************)
(* The life of a probe task within one poll (SpecHealthFair).              *)
(***************************************************************************)
\* The tasks of a poll that starts are all PENDING; while the poll lasts a
\* task only goes from PENDING to RUNNING and from RUNNING to COMPLETED, and a
\* completed task stays as it is.
TaskLifecycle ==
    \A p \in Polls :
        /\ (pc[p] = "idle" /\ pc'[p] # "idle") =>
               \A n \in DOMAIN component_tasks'[p] :
                   component_tasks'[p][n].state = "PENDING"
        /\ (pc[p] # "idle" /\ pc'[p] # "idle") =>
               /\ DOMAIN component_tasks'[p] = DOMAIN component_tasks[p]
               /\ \A n \in DOMAIN component_tasks[p] :
                      LET before == component_tasks[p][n]
                          after == component_tasks'[p][n]
                      IN \/ after = before
                         \/ before.state = "PENDING" /\ after.state = "RUNNING"
                         \/ before.state = "RUNNING" /\ after.state = "COMPLETED"

\* A snapshot is there only once every task of the poll has completed.
SnapshotAfterAllCompleted ==
    \A p \in Polls :
        Returned(p) =>
            /\ AllCompleted(component_tasks[p])
            /\ AllCompleted(metric_tasks[p])

\* C26: in one poll every registered probe is invoked exactly once and goes
\* PENDING, RUNNING, COMPLETED, whether it succeeds or fails, with no second
\* invocation; the snapshot is produced only after every probe of the poll has
\* completed; and if every probe terminates, by returning or by raising, a
\* poll that has started eventually has its snapshot.
C26_ProbesRunOnceAndPollReturns ==
    /\ []SnapshotAfterAllCompleted
    /\ [][TaskLifecycle]_vars
    /\ (pc[1] = "probes" ~> Returned(1))


(***************************************************************************)
(* The thresholds of the system metrics (SpecMetrics).                     *)
(***************************************************************************)
\* The measurement a metric status reports, if the probe took one.
Measured(status) == "percent_used" \in DOMAIN status.metadata

\* The float `percent` is less than the whole number `threshold`.
PercentBelow(percent, threshold) ==
    \/ percent.num < threshold * percent.den
    \/ percent.num = threshold * percent.den /\ percent.off < 0

\* The float `percent` is shown by f"{percent:.1f}" as the threshold.
ShownAsThreshold(percent, threshold) ==
    RoundTenths(percent.num, percent.den, percent.off) = threshold * 10

\* C27: a metric probe (memory, disk, cpu alike) reports healthy exactly when
\* the measured percentage is strictly below the configured threshold: a
\* measurement on the threshold is unhealthy, and the comparison is made on
\* the unrounded measurement, so that one that is shown as the threshold but
\* lies under it is healthy.
C27_HealthyIffStrictlyBelowThreshold ==
    \A m \in DOMAIN metric_tasks[1] :
        LET task == metric_tasks[1][m]
        IN (task.result # None /\ Measured(task.result[1])) =>
              LET status == task.result[1]
                  percent == status.metadata.percent_used
                  threshold == CASE m = "memory" -> MEMORY_THRESHOLD_PERCENT
                                 [] m = "disk" -> DISK_THRESHOLD_PERCENT
                                 [] m = "cpu" -> CPU_THRESHOLD_PERCENT
              IN /\ status.healthy <=> PercentBelow(percent, threshold)
                 /\ (percent.num = threshold * percent.den /\ percent.off = 0)
                        => ~status.healthy
                 /\ (ShownAsThreshold(percent, threshold)
                        /\ percent.num < threshold * percent.den) => status.healthy
                 /\ status.metadata.threshold_percent = threshold

\* Each of the three probes took a measurement that lies under its threshold
\* and is shown as the threshold, and reported healthy: memory.percent 89.96,
\* 8496 of 10000 units of the disk used, cpu_percent 94.96.
C27_Witness ==
    /\ DOMAIN metric_tasks[1] = MetricNames
    /\ \A m \in MetricNames : metric_tasks[1][m].result # None
    /\ \A m \in MetricNames : Measured(metric_tasks[1][m].result[1])
    /\ metric_tasks[1]["memory"].reading[1].percent = 8996
    /\ metric_tasks[1]["memory"].result[1].message = "Memory usage: 90.0%"
    /\ metric_tasks[1]["memory"].result[1].healthy
    /\ metric_tasks[1]["disk"].reading[1].used = 8496
    /\ metric_tasks[1]["disk"].reading[1].total = 10000
    /\ metric_tasks[1]["disk"].result[1].message = "Disk usage: 85.0%"
    /\ metric_tasks[1]["disk"].result[1].healthy
    /\ metric_tasks[1]["cpu"].reading[1].percent = 9496
    /\ metric_tasks[1]["cpu"].result[1].message = "CPU usage: 95.0%"
    /\ metric_tasks[1]["cpu"].result[1].healthy


(***************************************************************************)
(* The order of the lifecycle tasks (SpecLife).                            *)
(***************************************************************************)
\* Whenever task b has begun, task a had ended before.
RanBefore(a, b) ==
    \A k \in 1..Len(life_log) :
        life_log[k] = LifeEvent("begin", b) =>
            \E h \in 1..(k - 1) : life_log[h] = LifeEvent("end", a)

\* The tasks of a registry ran in the order of their registration.
InRegistrationOrder(tasks) ==
    \A i, j \in 1..Len(tasks) : i < j => RanBefore(tasks[i], tasks[j])

\* The position of the first occurrence of an event in the log, 0 if none.
FirstAt(event) ==
    IF \E k \in 1..Len(life_log) : life_log[k].event = event
    THEN CHOOSE k \in 1..Len(life_log) :
            /\ life_log[k].event = event
            /\ \A h \in 1..(k - 1) : life_log[h].event # event
    ELSE 0

\* Every startup task ended before the application served, and every
\* shutdown task began after it had stopped serving.
StartupBeforeServingShutdownAfter ==
    /\ FirstAt("serving") > 0 =>
           \A i \in 1..Len(STARTUP_TASKS) :
               \E h \in 1..(FirstAt("serving") - 1) :
                   life_log[h] = LifeEvent("end", STARTUP_TASKS[i])
    /\ \A k \in 1..Len(life_log) :
           (life_log[k].event = "begin" /\ life_log[k].task \in Range(SHUTDOWN_TASKS)) =>
               (FirstAt("stopped") > 0 /\ FirstAt("stopped") < k)

\* C28: lifespan runs the tasks of STARTUP_TASKS and those of SHUTDOWN_TASKS
\* in the order of their registration, each awaited to its end before the
\* next begins; the startup tasks have all ended before the application
\* serves, and the shutdown tasks run only after it has stopped.
C28_LifecycleTasksInRegistrationOrder ==
    /\ InRegistrationOrder(STARTUP_TASKS)
    /\ InRegistrationOrder(SHUTDOWN_TASKS)
    /\ StartupBeforeServingShutdownAfter


(***************************************************************************)
(* The times in the metric cache under overlapping polls (SpecRace).       *)
(***************************************************************************)
\* C29: the time stored in a metric's cache entry never decreases over the
\* successive writes to the entry, also when two polls overlap: a poll that
\* started earlier and whose probe finishes later does not put an older time
\* in the place of a newer one.
C29_EntryTimeNeverDecreases ==
    [][\A m \in DOMAIN metrics_cache :
           m \in DOMAIN metrics_cache' /\ metrics_cache'[m].time >= metrics_cache[m].time]_vars


(***************************************************************************)
(* The probes of a poll are those registered when it starts (SpecHealth).  *)
(***************************************************************************)
\* While a poll lasts, its tasks stay those created at its start, each around
\* the probe it was created with, whatever is registered meanwhile.
ProbeSetFixed ==
    \A p \in Polls :
        (pc[p] # "idle" /\ pc'[p] # "idle") =>
            /\ DOMAIN component_tasks'[p] = DOMAIN component_tasks[p]
            /\ \A n \in DOMAIN component_tasks[p] :
                   component_tasks'[p][n].check_fn = component_tasks[p][n].check_fn

\* A registration changes neither the tasks nor the snapshot of a poll.
RegistrationLeavesPollAlone ==
    last_registered' # last_registered =>
        /\ component_tasks' = component_tasks
        /\ metric_tasks' = metric_tasks
        /\ snapshot' = snapshot

\* The snapshot of a poll has a node for each of its tasks and for nothing
\* else, but for the backend node that holds the metrics.
SnapshotOfOwnTasks ==
    \A p \in Polls :
        Returned(p) =>
            /\ DOMAIN RootChildren(snapshot[p][1])
                 = DOMAIN component_tasks[p] \cup {"backend"}
            /\ \A n \in DOMAIN component_tasks[p] :
                   Untimed(RootChildren(snapshot[p][1])[n])
                     = Untimed(IF n = "backend"
                               THEN [Recorded(p, n)
                                        EXCEPT !.sub_components = system_metrics[p]]
                               ELSE Recorded(p, n))

\* C30: the probes of a poll are fixed when it starts: a probe registered or
\* overwritten while the poll awaits its probes is not run by it and neither
\* appears in nor alters its snapshot; the next poll to start takes it.
C30_ProbeSetFixedAtPollStart ==
    /\ []SnapshotOfOwnTasks
    /\ [][ProbeSetFixed /\ RegistrationLeavesPollAlone /\ PollTakesRegisteredProbes]_vars

\* The poll started with check_a alone, under "backend"; while it ran,
\* "backend" was overwritten with check_b and "custom_test" was registered:
\* its snapshot has the backend node only.
C30_Witness ==
    /\ Returned(1)
    /\ DOMAIN component_tasks[1] = {"backend"}
    /\ component_tasks[1]["backend"].check_fn = "check_a"
    /\ DOMAIN health_checks = HealthNames
    /\ health_checks["backend"] = "check_b"
    /\ DOMAIN RootChildren(snapshot[1][1]) = {"backend"}


(***************************************************************************)
(* The backend node of a registered backend probe (SpecHealth).            *)
(***************************************************************************)
\* The backend node of the snapshot of poll p.
BackendNode(p) == RootChildren(snapshot[p][1])["backend"]

\* C31: with a probe registered under "backend", the backend node of the
\* snapshot has the name, healthy flag, message, response time and metadata
\* the probe's run produced, and its sub_components are exactly the three
\* system metrics, those the probe returned being dropped; an unhealthy
\* metric leaves the node's healthy flag as the probe reported it and makes
\* overall_healthy false.
C31_RegisteredBackendKeepsItsStatus ==
    \A p \in Polls :
        (Returned(p) /\ "backend" \in DOMAIN component_tasks[p]) =>
            LET reported == Recorded(p, "backend")
                node == BackendNode(p)
            IN /\ node.name = reported.name
               /\ node.healthy = reported.healthy
               /\ node.message = reported.message
               /\ node.response_time_ms = reported.response_time_ms
               /\ node.metadata = reported.metadata
               /\ DOMAIN node.sub_components = MetricNames
               /\ node.sub_components = system_metrics[p]
               /\ (\E m \in MetricNames : ~node.sub_components[m].healthy) =>
                      ~snapshot[p][1].overall_healthy

\* The backend probe reported healthy, with a child of its own; a metric is
\* unhealthy: the node is healthy, the child is gone, overall_healthy is false.
C31_Witness ==
    /\ Returned(1)
    /\ "backend" \in DOMAIN component_tasks[1]
    /\ Recorded(1, "backend").healthy
    /\ DOMAIN Recorded(1, "backend").sub_components = {"child"}
    /\ BackendNode(1).healthy
    /\ DOMAIN BackendNode(1).sub_components = MetricNames
    /\ ~BackendNode(1).sub_components["memory"].healthy
    /\ ~snapshot[1][1].overall_healthy


(***************************************************************************)
(* The root of the snapshot (SpecHealth).                                  *)
(***************************************************************************)
\* C32: the components mapping of a snapshot has the one key "aegis", the
\* synthetic root; the root's sub_components are the results of the
\* registered probes and the backend node, and the root's healthy flag is
\* the snapshot's overall_healthy.
C32_SingleRootWrapsProbes ==
    \A p \in Polls :
        Returned(p) =>
            LET status == snapshot[p][1]
                root == status.components["aegis"]
            IN /\ DOMAIN status.components = {"aegis"}
               /\ root.name = "aegis"
               /\ DOMAIN root.sub_components = DOMAIN component_tasks[p] \cup {"backend"}
               /\ \A n \in DOMAIN component_tasks[p] \ {"backend"} :
                      root.sub_components[n] = Recorded(p, n)
               /\ root.sub_components["backend"].sub_components = system_metrics[p]
               /\ root.healthy = status.overall_healthy

\* Two probes were polled, both healthy, and a metric is unhealthy: the root
\* wraps the two nodes and is unhealthy, as overall_healthy is false.
C32_Witness ==
    /\ Returned(1)
    /\ DOMAIN component_tasks[1] = HealthNames
    /\ \A n \in HealthNames : Recorded(1, n).healthy
    /\ DOMAIN snapshot[1][1].components = {"aegis"}
    /\ DOMAIN RootChildren(snapshot[1][1]) = HealthNames
    /\ ~snapshot[1][1].overall_healthy
    /\ ~snapshot[1][1].components["aegis"].healthy


\* A run of a metric's probe that ends in this step, with a measurement or
\* with a failure of psutil, leaves the metric's entry in the cache holding
\* the status the poll reports for the metric.
ResultCachedWhateverOutcome ==
    \A p \in Polls : \A m \in MetricNames :
        MetricCompletes(p, m) =>
            /\ m \in DOMAIN metrics_cache'
            /\ Awaited(metric_tasks'[p][m])
            /\ metrics_cache'[m].status = AwaitedStatus(m, metric_tasks'[p][m])

\* A poll that starts in this step while an unhealthy entry is within the
\* cache window has no task for that metric and holds the entry's status.
UnhealthyEntryServed ==
    \A p \in Polls :
        (pc[p] = "idle" /\ pc'[p] # "idle") =>
            \A m \in DOMAIN metrics_cache :
                (/\ ~metrics_cache[m].status.healthy
                 /\ now - metrics_cache[m].time < SYSTEM_METRICS_CACHE_SECONDS) =>
                    /\ m \notin DOMAIN metric_tasks'[p]
                    /\ system_metrics'[p][m] = metrics_cache[m].status
                    /\ ~system_metrics'[p][m].healthy

\* C33: a metric result is cached whatever its outcome: an unhealthy status,
\* measured or made from a failure of the probe, is stored, and a poll within
\* the cache window returns it without running the probe, even if the
\* condition has cleared.
C33_UnhealthyResultCached ==
    [][ResultCachedWhateverOutcome /\ UnhealthyEntryServed]_vars



(***************************************************************************)
(* The phases of a poll (SpecTiming).                                      *)
(***************************************************************************)
\* A poll that starts has created a task for every registered probe, none of
\* them run yet; no task is created later.
LaunchedBeforeAwaited ==
    \A p \in Polls :
        /\ (pc[p] = "idle" /\ pc'[p] = "probes") =>
               /\ DOMAIN component_tasks'[p] = DOMAIN health_checks
               /\ \A n \in DOMAIN component_tasks'[p] :
                      component_tasks'[p][n].state = "PENDING"
        /\ (pc[p] = "probes" /\ pc'[p] = "probes") =>
               DOMAIN component_tasks'[p] = DOMAIN component_tasks[p]

\* The metrics are looked up, and their probes created, only once every
\* registered probe of the poll has completed.
MetricsAfterProbes ==
    \A p \in Polls :
        (pc[p] = "probes" /\ (\/ pc'[p] \notin {"probes", "raised"}
                              \/ metric_tasks'[p] # metric_tasks[p]
                              \/ system_metrics'[p] # system_metrics[p])) =>
            /\ AllCompleted(component_tasks[p])
            /\ component_tasks'[p] = component_tasks[p]

\* The age check that ends the probe phase is made against the time the poll
\* started, whatever the clock shows by then.
AgeAgainstPollStart ==
    \A p \in Polls :
        (pc[p] = "probes" /\ pc'[p] \notin {"probes", "raised"}) =>
            /\ DOMAIN metric_tasks'[p]
                 = {m \in MetricNames : Stale(metrics_cache, m, start_time[p])}
            /\ \A m \in MetricNames \ DOMAIN metric_tasks'[p] :
                   system_metrics'[p][m] = metrics_cache[m].status

\* C34: in one poll all registered probes are launched before any result is
\* awaited; the cache age check and the metric probes come only after every
\* registered probe has completed; the age is nevertheless computed against
\* the time the poll started.
C34_ProbesThenMetricsAgeFromPollStart ==
    [][LaunchedBeforeAwaited /\ MetricsAfterProbes /\ AgeAgainstPollStart]_vars

\* The probes of the poll took longer than the cache duration; the entries,
\* expired by the clock, were fresh at the start of the poll and were served.
C34_Witness ==
    /\ Returned(1)
    /\ DOMAIN component_tasks[1] = HealthNames
    /\ DOMAIN metric_tasks[1] = {}
    /\ \A m \in MetricNames :
           /\ now - metrics_cache[m].time >= SYSTEM_METRICS_CACHE_SECONDS
           /\ start_time[1] - metrics_cache[m].time < SYSTEM_METRICS_CACHE_SECONDS


(***************************************************************************)
(* The health flags of the worker probe (SpecWorker).                      *)
(***************************************************************************)
\* The health-check key of the queue is present: the get of the probe came
\* back with its value.
KeyPresent(answer) ==
    /\ ~answer.raises
    /\ answer.health_check_data # None

\* worker_alive as lines 536-574 leave it: the get came back with a value that
\* is not empty (line 543) and has a decode() (line 544).
WorkerAlive(answer) ==
    /\ ~answer.raises
    /\ answer.health_check_data # None
    /\ answer.health_check_data[1] # <<>>
    /\ answer.health_check_data[1] # NotBytes

\* What a check takes as the value of the key is what Redis held when its get
\* came back.
KeyReadFromRedis ==
    \A q \in DOMAIN worker_answers' \ DOMAIN worker_answers :
        ~worker_answers'[q].raises =>
            worker_answers'[q].health_check_data = redis_obs[q].health_check_data

\* failed / (completed + failed) is under a quarter; no job at all counts as
\* no failure.
UnderQuarterFailed(answer) ==
    LET completed == StatOf(answer.health_check_data[1], "j_complete")
        failed == StatOf(answer.health_check_data[1], "j_failed")
    IN failed = 0 \/ 4 * failed < completed + failed

\* The status returned in this step, against what the calls to Redis gave;
\* HasWorker tells from the answer about a queue whether its worker counts as
\* there.
WorkerFlagsAsClaimed(HasWorker(_)) ==
    (worker_status' # worker_status /\ worker_status' # None) =>
        LET status == worker_status'[1]
        IN IF "queues" \in DOMAIN status.sub_components
           THEN LET queues_child == status.sub_components["queues"]
                    queue_nodes == queues_child.sub_components
                    active == {q \in worker_queues : HasWorker(worker_answers[q])}
                IN /\ DOMAIN queue_nodes = worker_queues
                   /\ \A q \in worker_queues :
                          queue_nodes[q].healthy
                            <=> (/\ HasWorker(worker_answers[q])
                                 /\ UnderQuarterFailed(worker_answers[q]))
                   /\ ((\E q \in worker_queues : ~queue_nodes[q].healthy) \/ active = {})
                          => ~status.healthy
                   /\ worker_queues # {} => status.healthy = queues_child.healthy
                   /\ worker_queues = {} => (~status.healthy /\ queues_child.healthy)
           ELSE ~status.healthy

\* C35 as stated: in the status of check_worker_health a queue is healthy
\* exactly when its health-check key is present and its failure rate
\* failed / (completed + failed) is strictly under 25 % (no job at all is
\* healthy); the worker node is unhealthy whenever a queue is unhealthy or no
\* worker is active; with a queue configured its healthy flag is that of its
\* queues child, and with none it is unhealthy while the queues child is
\* healthy.
C35_HealthyIffKeyPresent ==
    [][KeyReadFromRedis /\ WorkerFlagsAsClaimed(KeyPresent)]_vars

\* C35, with the value of the key taken into account: a queue is healthy
\* exactly when the get of its health-check key returned a value that is not
\* empty and is bytes, and its failure rate is strictly under 25 %; a key that
\* is present with an empty value, or with a str for a value, gives an
\* unhealthy queue, as a missing key does.  The flags of the worker node and
\* of the queues child are as stated.
C35_WorkerHealthFlags ==
    [][KeyReadFromRedis /\ WorkerFlagsAsClaimed(WorkerAlive)]_vars

\* The media worker has 1 failure in 5 jobs and is healthy; Redis holds the
\* key of the system queue with an empty value: the queue is reported offline
\* and unhealthy, and so are the queues child and the worker node.
C35_Witness ==
    /\ worker_status # None
    /\ "queues" \in DOMAIN worker_status[1].sub_components
    /\ worker_queues = QueueTypes
    /\ redis_obs["system"].health_check_data = Some(<<>>)
    /\ LET queue_nodes == worker_status[1].sub_components["queues"].sub_components
       IN /\ "jobs_completed" \in DOMAIN queue_nodes["media"].metadata
          /\ queue_nodes["media"].metadata.jobs_completed = 4
          /\ queue_nodes["media"].metadata.jobs_failed = 1
          /\ queue_nodes["media"].healthy
          /\ "offline_reason" \in DOMAIN queue_nodes["system"].metadata
          /\ ~queue_nodes["system"].metadata.worker_alive
          /\ ~queue_nodes["system"].healthy
    /\ ~worker_status[1].sub_components["queues"].healthy
    /\ ~worker_status[1].healthy


(***************************************************************************)
(* The interactive path of aegis init (Spec).                              *)
(***************************************************************************)
\* init went through interactive_component_selection.
AskedInteractively ==
    cli_pc = "exited" /\ "interactive_component_selection" \in Range(calls)

\* C36: on the interactive path, whatever the answers to the prompts, the
\* selection interactive_component_selection returns is closed under
\* requires (no worker without redis), resolution adds nothing to it, and the
\* auto-added list computed after resolution is empty, so that the
\* auto-added message is never shown there.
C36_InteractiveSelectionClosed ==
    AskedInteractively =>
        /\ RequiresOf(Range(selected)) \subseteq Range(selected)
        /\ "worker" \in Range(selected) => "redis" \in Range(selected)
        /\ "resolve_dependencies" \in Range(calls) =>
               resolved \ CORE_COMPONENTS = Range(selected)
        /\ auto_added = {}

\* The user declined Redis and then took the worker: the selection came back
\* as redis and worker, and nothing was auto-added.
C36_Witness ==
    /\ AskedInteractively
    /\ selected = <<"redis", "worker">>
    /\ "get_missing_dependencies" \in Range(calls)
    /\ auto_added = {}
    /\ exit_code = 0

====
